---- MODULE Spec2Model ----
(***************************************************************************)
(* Radio-Rez: reservation store (SQLite tables meta, reservations,         *)
(* channels), the reservation life cycle and the range rollup              *)
(* (ReservationService.get_plan_ozet_range_data).                          *)
(*                                                                         *)
(* Text is modelled as a sequence of one-character strings, so that        *)
(* strip(), upper(), lower() and split() are computed and not assumed.     *)
(* A calendar date is <<year, month, day>>; no date is <<>>.              *)
(***************************************************************************)
EXTENDS Integers, Sequences, FiniteSets, TLC

\* ------------------------------------------------------------------ text

Uppers == <<"A","B","C","D","E","F","G","H","I","J","K","L","M",
            "N","O","P","Q","R","S","T","U","V","W","X","Y","Z">>

Lowers == <<"a","b","c","d","e","f","g","h","i","j","k","l","m",
            "n","o","p","q","r","s","t","u","v","w","x","y","z">>

UpperCh(c) ==
    IF \E i \in 1..Len(Lowers) : Lowers[i] = c
    THEN Uppers[CHOOSE i \in 1..Len(Lowers) : Lowers[i] = c]
    ELSE c

LowerCh(c) ==
    IF \E i \in 1..Len(Uppers) : Uppers[i] = c
    THEN Lowers[CHOOSE i \in 1..Len(Uppers) : Uppers[i] = c]
    ELSE c

\* str.upper() / str.lower()
Upper(s) == [i \in 1..Len(s) |-> UpperCh(s[i])]

Lower(s) == [i \in 1..Len(s) |-> LowerCh(s[i])]

RECURSIVE LStrip(_)
LStrip(s) == IF s # <<>> /\ Head(s) = " " THEN LStrip(Tail(s)) ELSE s

RECURSIVE RStrip(_)
RStrip(s) ==
    IF s # <<>> /\ s[Len(s)] = " " THEN RStrip(SubSeq(s, 1, Len(s) - 1)) ELSE s

\* str.strip()
Strip(s) == RStrip(LStrip(s))

\* " ".join(s.split()) on a stripped text: runs of blanks become one blank
RECURSIVE JoinSplit(_)
JoinSplit(s) ==
    IF Len(s) < 2 THEN s
    ELSE IF s[1] = " " /\ s[2] = " " THEN JoinSplit(Tail(s))
    ELSE <<s[1]>> \o JoinSplit(Tail(s))

\* ReservationService._norm_name
NormName(s) == JoinSplit(Lower(Strip(s)))

Digits == <<"0","1","2","3","4","5","6","7","8","9">>

\* str(n) for n >= 0
RECURSIVE FormatInt(_)
FormatInt(n) ==
    IF n < 10 THEN <<Digits[n + 1]>>
    ELSE FormatInt(n \div 10) \o <<Digits[(n % 10) + 1]>>

IsDigit(c) == \E i \in 1..10 : Digits[i] = c

DigitVal(c) == (CHOOSE i \in 1..10 : Digits[i] = c) - 1

\* int(s) for a text of decimal digits
RECURSIVE ParseInt(_)
ParseInt(s) ==
    IF s = <<>> THEN 0
    ELSE 10 * ParseInt(SubSeq(s, 1, Len(s) - 1)) + DigitVal(s[Len(s)])

\* int(s): blanks around the number are dropped, a leading "-" is a sign;
\* any other text raises ValueError
IsIntText(s) ==
    LET t == Strip(s)
        u == IF t # <<>> /\ Head(t) = "-" THEN Tail(t) ELSE t
    IN u # <<>> /\ \A i \in 1..Len(u) : IsDigit(u[i])

IntOf(s) ==
    LET t == Strip(s)
    IN IF Head(t) = "-" THEN 0 - ParseInt(Tail(t)) ELSE ParseInt(t)

\* f"{n:02d}" and f"{n:04d}"
Format02d(n) == IF n < 10 THEN <<"0">> \o FormatInt(n) ELSE FormatInt(n)

Format04d(n) ==
    IF n < 10 THEN <<"0", "0", "0">> \o FormatInt(n)
    ELSE IF n < 100 THEN <<"0", "0">> \o FormatInt(n)
    ELSE IF n < 1000 THEN <<"0">> \o FormatInt(n)
    ELSE FormatInt(n)

\* s.split(sep): the fields between the separators
RECURSIVE Split(_, _)
Split(s, sep) ==
    IF \A i \in 1..Len(s) : s[i] # sep THEN <<s>>
    ELSE LET i == CHOOSE i \in 1..Len(s) : s[i] = sep /\ \A j \in 1..(i - 1) : s[j] # sep
         IN <<SubSeq(s, 1, i - 1)>> \o Split(SubSeq(s, i + 1, Len(s)), sep)

\* s.split(sep, 1): at most two fields
Split1(s, sep) ==
    IF \A i \in 1..Len(s) : s[i] # sep THEN <<s>>
    ELSE LET i == CHOOSE i \in 1..Len(s) : s[i] = sep /\ \A j \in 1..(i - 1) : s[j] # sep
         IN <<SubSeq(s, 1, i - 1), SubSeq(s, i + 1, Len(s))>>

\* ----------------------------------------------------------------- dates

NoDate == <<>>

IsLeap(y) == (y % 4 = 0 /\ y % 100 # 0) \/ y % 400 = 0

DaysInMonth(y, m) ==
    IF m = 2 THEN (IF IsLeap(y) THEN 29 ELSE 28)
    ELSE IF m \in {4, 6, 9, 11} THEN 30 ELSE 31

\* datetime.date(y, m, d) raises ValueError unless this holds
IsValidDate(y, m, d) ==
    /\ y \in 1..9999
    /\ m \in 1..12
    /\ d \in 1..DaysInMonth(y, m)

DateLT(a, b) ==
    \/ a[1] < b[1]
    \/ a[1] = b[1] /\ a[2] < b[2]
    \/ a[1] = b[1] /\ a[2] = b[2] /\ a[3] < b[3]

DateLE(a, b) == a = b \/ DateLT(a, b)

\* d + timedelta(days=1)
NextDay(d) ==
    IF d[3] < DaysInMonth(d[1], d[2]) THEN <<d[1], d[2], d[3] + 1>>
    ELSE IF d[2] < 12 THEN <<d[1], d[2] + 1, 1>>
    ELSE <<d[1] + 1, 1, 1>>

\* date.isoformat(): "YYYY-MM-DD"
IsoFormat(d) ==
    Format04d(d[1]) \o <<"-">> \o Format02d(d[2]) \o <<"-">> \o Format02d(d[3])

\* ReservationService._parse_iso_date: datetime.fromisoformat(str(s)).date()
\* of a text "YYYY-MM-DD"; any other text, or no calendar date, gives None
ParseIsoDate(s) ==
    LET y == ParseInt(SubSeq(s, 1, 4))
        m == ParseInt(SubSeq(s, 6, 7))
        d == ParseInt(SubSeq(s, 9, 10))
    IN IF /\ Len(s) = 10
          /\ s[5] = "-" /\ s[8] = "-"
          /\ \A i \in {1, 2, 3, 4, 6, 7, 9, 10} : IsDigit(s[i])
          /\ IsValidDate(y, m, d)
       THEN <<y, m, d>>
       ELSE NoDate

\* ----------------------------------------------------------------- state

\* None where a text is expected (a NULL column)
None == <<"None">>

\* an operation that returns nothing
NoRet == [none |-> TRUE]

VARIABLES
    meta,               \* table meta: value of key 'reservation_seq' (TEXT)
    reservations,       \* table reservations: a set of rows
    lastRowid,          \* AUTOINCREMENT of reservations.id
    advertisers,        \* table advertisers: the names
    channels,           \* table channels: rows [id, name, is_active]
    lastChannelId,      \* AUTOINCREMENT of channels.id
    current_confirmed,  \* MainWindow.current_confirmed: <<payload>>, or <<>> for None
    call,               \* the last operation and its arguments
    ret,                \* what the last operation returned
    issued,             \* history: the sequence numbers committed, in order
    retBefore,          \* history: ret of the call before, when the last two
                        \* calls were the same rollup, else NoRet
    pc,                 \* per connection: where it is in create_reservation
    tx,                 \* per connection: its open transaction
    writer,             \* the connection holding SQLite's write lock, or 0
    dbVersion,          \* number of commits (the WAL's end mark)
    channel_prices,     \* table channel_prices: rows [year, month, channel_id, price_dt, price_odt]
    plan_grid           \* PlanningGrid: mode, span, range and the columns shown

storeVars == <<meta, reservations, lastRowid, advertisers, channels, lastChannelId>>

connVars == <<pc, tx, writer, dbVersion>>

auxVars == <<channel_prices, plan_grid>>

vars == <<meta, reservations, lastRowid, advertisers, channels, lastChannelId,
          current_confirmed, call, ret, issued, retBefore, pc, tx, writer, dbVersion,
          channel_prices, plan_grid>>

\* db.py migrate_and_seed: the counter is seeded with "1000"
SeedSeq == 1000

\* db.py migrate_and_seed: default channels
TRT_FM == <<"T","R","T"," ","F","M">>

RADIOSCOPE == <<"R","A","D","I","O","S","C","O","P","E">>

POWER_FM == <<"P","O","W","E","R"," ","F","M">>

SeedChannels ==
    { [id |-> 1, name |-> TRT_FM, is_active |-> 1],
      [id |-> 2, name |-> RADIOSCOPE, is_active |-> 1],
      [id |-> 3, name |-> POWER_FM, is_active |-> 1] }

\* "COKLU" with C-cedilla, the marker for several values; the letter C-cedilla
\* is written "C," and is one character
COKLU == <<"C,","O","K","L","U">>

\* bound: rows ever inserted into reservations
MaxRowid == 2

RECURSIVE SumFn(_)
SumFn(f) ==
    IF DOMAIN f = {} THEN 0
    ELSE LET x == CHOOSE x \in DOMAIN f : TRUE
         IN f[x] + SumFn([y \in DOMAIN f \ {x} |-> f[y]])

\* -------------------------------------------------- ReservationService.confirm

\* the key f"{r},{c}" of a cell
CellKey(r, c) == FormatInt(r) \o <<",">> \o FormatInt(c)

\* sanitize_plan_cells: the keys are texts already (str(k) is k); a None
\* value becomes ""
SanitizePlanCells(cells) ==
    [k \in DOMAIN cells |-> IF cells[k] = None THEN <<>> ELSE cells[k]]

\* time_rules.validate_day: toordinal() of anything but a date raises
ValidateDay(plan_date) == plan_date # NoDate

\* a variant of DedupCodeDefs that tests C24: the last occurrence is kept
RECURSIVE DedupCodeDefsLast(_, _)
DedupCodeDefsLast(raw, seen) ==
    IF raw = <<>> THEN <<>>
    ELSE LET code == Upper(Strip(raw[Len(raw)].code))
         IN IF code = <<>> \/ code \in seen
            THEN DedupCodeDefsLast(SubSeq(raw, 1, Len(raw) - 1), seen)
            ELSE DedupCodeDefsLast(SubSeq(raw, 1, Len(raw) - 1), seen \cup {code})
                 \o <<[code |-> code, duration_sec |-> raw[Len(raw)].duration_sec]>>

\* confirm, multiple code support: upper-cased codes, first occurrence kept
RECURSIVE DedupCodeDefs(_, _)
DedupCodeDefs(raw, seen) ==
    IF raw = <<>> THEN <<>>
    ELSE LET code == Upper(Strip(Head(raw).code))
         IN IF code = <<>> \/ code \in seen
            THEN DedupCodeDefs(Tail(raw), seen)
            ELSE <<[code |-> code, duration_sec |-> Head(raw).duration_sec]>>
                 \o DedupCodeDefs(Tail(raw), seen \cup {code})

\* confirm, backward compatibility: code_defs from the single-code fields
ConfirmCodeDefs(draft) ==
    LET defs == DedupCodeDefs(draft.code_defs, {})
        code == Upper(Strip(draft.spot_code))
    IN IF defs = <<>> /\ (draft.spot_code # <<>> \/ draft.spot_duration_sec # 0)
          /\ code # <<>>
       THEN <<[code |-> code, duration_sec |-> draft.spot_duration_sec]>>
       ELSE defs

\* confirm._lookup_def: the first definition of the code, or None (duration 0)
LookupDur(code_defs, c) ==
    LET cc == Upper(Strip(c))
        hits == {i \in 1..Len(code_defs) : Upper(Strip(code_defs[i].code)) = cc}
    IN IF hits = {} THEN 0
       ELSE code_defs[CHOOSE i \in hits : \A j \in hits : i <= j].duration_sec

\* confirm, the display fields spot_code / spot_duration_sec
UsedKeys(cells) == {k \in DOMAIN cells : Strip(cells[k]) # <<>>}

UsedCodes(cells) == {Upper(Strip(cells[k])) : k \in UsedKeys(cells)}

CodeCount(cells, c) == Cardinality({k \in UsedKeys(cells) : Upper(Strip(cells[k])) = c})

DispCode(draft, cells) ==
    LET used == UsedCodes(cells)
    IN IF Cardinality(used) = 1 THEN CHOOSE c \in used : TRUE
       ELSE IF Cardinality(used) > 1 THEN COKLU
       ELSE Strip(draft.spot_code)

\* int(round(wsum / total, 2)): the integer part of the weighted mean (the
\* rounding to two decimals reaches the next integer only from 200 cells on)
DispDur(draft, cells, code_defs) ==
    LET used == UsedCodes(cells)
    IN IF Cardinality(used) = 1 THEN LookupDur(code_defs, CHOOSE c \in used : TRUE)
       ELSE IF Cardinality(used) > 1
       THEN SumFn([c \in used |-> CodeCount(cells, c) * LookupDur(code_defs, c)])
            \div SumFn([c \in used |-> CodeCount(cells, c)])
       ELSE draft.spot_duration_sec

\* a variant of ConfirmError that tests C4: the advertiser is not validated
ConfirmErrorNoAdvertiser(draft) ==
    IF Strip(draft.plan_title) = <<>> THEN "plan_title"
    ELSE IF ~ValidateDay(draft.plan_date) THEN "plan_date"
    ELSE ""

\* confirm raises ValueError naming the field: plan title first, then the
\* advertiser, then the date; "" when the draft is accepted
ConfirmError(draft) ==
    IF Strip(draft.plan_title) = <<>> THEN "plan_title"
    ELSE IF Strip(draft.advertiser_name) = <<>> THEN "advertiser_name"
    ELSE IF ~ValidateDay(draft.plan_date) THEN "plan_date"
    ELSE ""

\* confirm: the payload of the ConfirmedReservation (display-only fields such as
\* note_text, prepared_by, spot_time and the price snapshot are left out)
ConfirmPayload(draft, plan_cells) ==
    LET cells == SanitizePlanCells(plan_cells)
        code_defs == ConfirmCodeDefs(draft)
    IN [ agency_name |-> Strip(draft.agency_name),
         advertiser_name |-> Strip(draft.advertiser_name),
         product_name |-> Strip(draft.product_name),
         plan_title |-> Strip(draft.plan_title),
         spot_code |-> Strip(DispCode(draft, cells)),
         spot_duration_sec |-> DispDur(draft, cells, code_defs),
         code_defs |-> code_defs,
         plan_date |-> IsoFormat(draft.plan_date),
         channel_name |-> Strip(draft.channel_name),
         plan_cells |-> cells,
         adet_total |-> Cardinality(UsedKeys(cells)),
         is_span |-> FALSE,
         span_start |-> <<>>,
         span_end |-> <<>>,
         span_month_matrices |-> <<>> ]

\* ------------------------------------------------------------- Repository

\* date.toordinal(): the days from 0001-01-01, that day being 1
RECURSIVE DaysBeforeMonth(_, _)
DaysBeforeMonth(y, m) == IF m = 1 THEN 0 ELSE DaysBeforeMonth(y, m - 1) + DaysInMonth(y, m - 1)

ToOrdinal(d) ==
    365 * (d[1] - 1) + ((d[1] - 1) \div 4) - ((d[1] - 1) \div 100) + ((d[1] - 1) \div 400)
    + DaysBeforeMonth(d[1], d[2]) + d[3]

\* the Monday that opens ISO week 1 of a year, as an ordinal
IsoWeek1Monday(year) ==
    LET firstday == ToOrdinal(<<year, 1, 1>>)
        firstweekday == (firstday + 6) % 7
        week1monday == firstday - firstweekday
    IN IF firstweekday > 3 THEN week1monday + 7 ELSE week1monday

\* a variant of IsoCalendar that tests C22: the calendar year, and the weeks
\* counted from the first of January
IsoCalendarPlain(d) == <<d[1], ((ToOrdinal(d) - ToOrdinal(<<d[1], 1, 1>>)) \div 7) + 1>>

\* when.isocalendar(): <<ISO year, ISO week>> of a date
IsoCalendar(d) ==
    LET today == ToOrdinal(d)
    IN IF today < IsoWeek1Monday(d[1])
       THEN <<d[1] - 1, ((today - IsoWeek1Monday(d[1] - 1)) \div 7) + 1>>
       ELSE IF (today - IsoWeek1Monday(d[1])) \div 7 >= 52 /\ today >= IsoWeek1Monday(d[1] + 1)
       THEN <<d[1] + 1, 1>>
       ELSE <<d[1], ((today - IsoWeek1Monday(d[1])) \div 7) + 1>>

\* next_reservation_no: f"{first}-{year}W{week:02d}-{seq}"; when is the
\* <<ISO year, ISO week>> of datetime.now()
ReservationNo(advertiser_name, when, seq) ==
    LET adv == Strip(advertiser_name)
        first == IF adv = <<>> THEN <<"X">> ELSE Upper(SubSeq(adv, 1, 1))
    IN first \o <<"-">> \o FormatInt(when[1]) \o <<"W">> \o Format02d(when[2])
       \o <<"-">> \o FormatInt(seq)

\* next_reservation_no: the counter read from meta (1000 when the row is missing)
ReadSeq(metaValue) == IF metaValue = None THEN SeedSeq ELSE ParseInt(metaValue)

\* a variant of WriteSeq that tests C2: the counter is written back as read
WriteSeqSame(seq) == FormatInt(seq)

\* next_reservation_no: UPDATE meta SET value = str(seq + 1)
WriteSeq(seq) == FormatInt(seq + 1)

\* the row create_reservation inserts
NewRow(rowid, reservation_no, advertiser_name, payload, confirmed) ==
    [ id |-> rowid,
      reservation_no |-> reservation_no,
      advertiser_name |-> advertiser_name,
      plan_title |-> Strip(payload.plan_title),
      is_confirmed |-> IF confirmed THEN 1 ELSE 0,
      payload |-> payload ]

\* reservations.reservation_no is UNIQUE (NULL never collides)
UniqueNo(rows, reservation_no) ==
    reservation_no = None \/ \A r \in rows : r.reservation_no # reservation_no

\* upsert_advertiser: INSERT OR IGNORE of the stripped, non-empty name
UpsertAdvertiser(names, name) ==
    IF Strip(name) = <<>> THEN names ELSE names \cup {Strip(name)}

\* the tables and the history a transaction of create_reservation works on
Store ==
    [ meta |-> meta, reservations |-> reservations, lastRowid |-> lastRowid,
      advertisers |-> advertisers, issued |-> issued, ret |-> NoRet ]

\* a variant of CreateReservation that tests C3: the number is allocated
\* whether or not the reservation is confirmed
CreateReservationAlwaysNo(st, advertiser_name, payload, confirmed, when) ==
    LET seq == ReadSeq(st.meta)
        no == ReservationNo(advertiser_name, when, seq)
        row == NewRow(st.lastRowid + 1, no, advertiser_name, payload, confirmed)
    IN IF UniqueNo(st.reservations, no)
       THEN [ meta |-> FormatInt(seq + 1),
              reservations |-> st.reservations \cup {row},
              lastRowid |-> st.lastRowid + 1,
              advertisers |-> UpsertAdvertiser(st.advertisers, advertiser_name),
              issued |-> Append(st.issued, seq),
              ret |-> [id |-> row.id, reservation_no |-> no,
                       is_confirmed |-> row.is_confirmed] ]
       ELSE [st EXCEPT !.ret = [error |-> "IntegrityError"]]

\* a variant of CreateReservation that tests C29: the UPDATE of the counter
\* outlives the failed INSERT
CreateReservationNoRollback(st, advertiser_name, payload, confirmed, when) ==
    LET seq == ReadSeq(st.meta)
        no == IF confirmed THEN ReservationNo(advertiser_name, when, seq) ELSE None
        row == NewRow(st.lastRowid + 1, no, advertiser_name, payload, confirmed)
    IN IF UniqueNo(st.reservations, no)
       THEN [ meta |-> IF confirmed THEN WriteSeq(seq) ELSE st.meta,
              reservations |-> st.reservations \cup {row},
              lastRowid |-> st.lastRowid + 1,
              advertisers |-> UpsertAdvertiser(st.advertisers, advertiser_name),
              issued |-> IF confirmed THEN Append(st.issued, seq) ELSE st.issued,
              ret |-> [id |-> row.id, reservation_no |-> no,
                       is_confirmed |-> row.is_confirmed] ]
       ELSE [st EXCEPT !.meta = WriteSeq(seq), !.ret = [error |-> "IntegrityError"]]

\* create_reservation on the application's single connection: BEGIN, the
\* number, the INSERT, commit; any exception rolls everything back. st.ret is
\* the ReservationRecord returned, or the exception raised.
CreateReservation(st, advertiser_name, payload, confirmed, when) ==
    LET seq == ReadSeq(st.meta)
        no == IF confirmed THEN ReservationNo(advertiser_name, when, seq) ELSE None
        row == NewRow(st.lastRowid + 1, no, advertiser_name, payload, confirmed)
    IN IF UniqueNo(st.reservations, no)
       THEN [ meta |-> IF confirmed THEN WriteSeq(seq) ELSE st.meta,
              reservations |-> st.reservations \cup {row},
              lastRowid |-> st.lastRowid + 1,
              advertisers |-> UpsertAdvertiser(st.advertisers, advertiser_name),
              issued |-> IF confirmed THEN Append(st.issued, seq) ELSE st.issued,
              ret |-> [id |-> row.id, reservation_no |-> no,
                       is_confirmed |-> row.is_confirmed] ]
       ELSE [st EXCEPT !.ret = [error |-> "IntegrityError"]]

\* a variant of ListConfirmedByPlanTitle that tests C8: the list is one read
\* before the newest reservation was stored
ListConfirmedByPlanTitleStale(rows, plan_title) ==
    {r \in rows : r.plan_title = Strip(plan_title) /\ r.is_confirmed = 1
                  /\ \E r2 \in rows : r2.id > r.id}

\* list_confirmed_reservations_by_plan_title: the confirmed rows of the
\* stripped title (ORDER BY created_at DESC: the newest row first)
ListConfirmedByPlanTitle(rows, plan_title) ==
    {r \in rows : r.plan_title = Strip(plan_title) /\ r.is_confirmed = 1}

\* a variant of RemoveCodePayload that tests C5: the count of the cells is
\* brought up to date as well
RemoveCodePayloadRecount(p, code) ==
    [p EXCEPT
       !.plan_cells = [k \in DOMAIN p.plan_cells |->
                          IF Upper(Strip(p.plan_cells[k])) = code THEN <<>>
                          ELSE p.plan_cells[k]],
       !.code_defs = SelectSeq(p.code_defs, LAMBDA d : Upper(Strip(d.code)) # code),
       !.adet_total = Cardinality({k \in DOMAIN p.plan_cells :
                                     Strip(p.plan_cells[k]) # <<>>
                                     /\ Upper(Strip(p.plan_cells[k])) # code})]

\* remove_code_from_plan_title, per record: the cells of plan_cells holding
\* the code are blanked and the code's definitions dropped
RemoveCodePayload(p, code) ==
    [p EXCEPT
       !.plan_cells = [k \in DOMAIN p.plan_cells |->
                          IF Upper(Strip(p.plan_cells[k])) = code THEN <<>>
                          ELSE p.plan_cells[k]],
       !.code_defs = SelectSeq(p.code_defs, LAMBDA d : Upper(Strip(d.code)) # code)]

\* remove_code_from_plan_title: had_any
RemoveCodeTouches(p, code) ==
    \/ \E k \in DOMAIN p.plan_cells : Upper(Strip(p.plan_cells[k])) = code
    \/ \E i \in 1..Len(p.code_defs) : Upper(Strip(p.code_defs[i].code)) = code

\* a variant of RemoveCodeRows that tests C6: the rewritten reservation goes
\* back to unconfirmed and loses its number
RemoveCodeRowsUnconfirm(rows, plan_title, spot_code) ==
    LET code == Upper(Strip(spot_code))
        recs == ListConfirmedByPlanTitle(rows, plan_title)
    IN IF code = <<>> THEN rows
       ELSE { IF r \in recs /\ RemoveCodeTouches(r.payload, code)
              THEN [r EXCEPT !.payload = RemoveCodePayload(r.payload, code),
                             !.is_confirmed = 0, !.reservation_no = None]
              ELSE r : r \in rows }

\* remove_code_from_plan_title with update_reservation_payload
RemoveCodeRows(rows, plan_title, spot_code) ==
    LET code == Upper(Strip(spot_code))
        recs == ListConfirmedByPlanTitle(rows, plan_title)
    IN IF code = <<>> THEN rows
       ELSE { IF r \in recs /\ RemoveCodeTouches(r.payload, code)
              THEN [r EXCEPT !.payload = RemoveCodePayload(r.payload, code)]
              ELSE r : r \in rows }

\* ------------------------------------------------------------ time rules

\* ReservationService._row_idx_to_time: <<hour, minute>> of 07:00 + 15 min * row
RowIdxToTime(row_idx) ==
    LET mins == 7 * 60 + row_idx * 15 IN <<mins \div 60, mins % 60>>

\* a variant of TimeslotsFrom that tests C21: the end of the day opens a slot
RECURSIVE TimeslotsFromInclusive(_, _, _)
TimeslotsFromInclusive(cur, last, step_min) ==
    IF cur <= last
    THEN <<[time |-> <<(cur \div 60) % 24, cur % 60>>,
            label |-> Format02d((cur \div 60) % 24) \o <<":">> \o Format02d(cur % 60) \o <<"-">>
                      \o Format02d(((cur + step_min) \div 60) % 24) \o <<":">>
                      \o Format02d((cur + step_min) % 60)]>>
         \o TimeslotsFromInclusive(cur + step_min, last, step_min)
    ELSE <<>>

\* build_timeslots, the loop: cur and last in minutes since midnight of the
\* day the datetime values are built on; an entry is (cur.time(), "HH:MM-HH:MM")
RECURSIVE TimeslotsFrom(_, _, _)
TimeslotsFrom(cur, last, step_min) ==
    IF cur < last
    THEN <<[time |-> <<(cur \div 60) % 24, cur % 60>>,
            label |-> Format02d((cur \div 60) % 24) \o <<":">> \o Format02d(cur % 60) \o <<"-">>
                      \o Format02d(((cur + step_min) \div 60) % 24) \o <<":">>
                      \o Format02d((cur + step_min) % 60)]>>
         \o TimeslotsFrom(cur + step_min, last, step_min)
    ELSE <<>>

\* build_timeslots(start="07:00", end="20:00", step_min=15)
BuildTimeslots == TimeslotsFrom(7 * 60 + 0, 20 * 60 + 0, 15)

\* datetime.time(h, m) raises ValueError unless this holds
IsValidTime(t) == t[1] \in 0..23 /\ t[2] \in 0..59

\* a variant of ClassifyDtOdt that tests C20: the windows include their ends
ClassifyDtOdtInclusive(t) ==
    LET mins == t[1] * 60 + t[2]
        dt1 == 7 * 60 <= mins /\ mins <= 10 * 60
        dt2 == 17 * 60 <= mins /\ mins <= 20 * 60
    IN IF dt1 \/ dt2 THEN "DT" ELSE "ODT"

\* time_rules.classify_dt_odt
ClassifyDtOdt(t) ==
    LET mins == t[1] * 60 + t[2]
        dt1 == 7 * 60 <= mins /\ mins < 10 * 60
        dt2 == 17 * 60 <= mins /\ mins < 20 * 60
    IN IF dt1 \/ dt2 THEN "DT" ELSE "ODT"

\* --------------------------------------------- get_plan_ozet_range_data

\* code points order the characters of a text
CharOrder == <<" ", "-">> \o Digits \o Uppers \o Lowers \o <<"C,">>

Ord(c) == CHOOSE i \in 1..Len(CharOrder) : CharOrder[i] = c

\* a < b for texts (str.__lt__)
RECURSIVE StrLT(_, _)
StrLT(a, b) ==
    IF b = <<>> THEN FALSE
    ELSE IF a = <<>> THEN TRUE
    ELSE IF Head(a) = Head(b) THEN StrLT(Tail(a), Tail(b))
    ELSE Ord(Head(a)) < Ord(Head(b))

\* a value shown blank when it is 0: <<>> is "", <<v>> is the number v
Shown(v) == IF v = 0 THEN <<>> ELSE <<v>>

\* int(v) if v not in ("", None) else 0
Val(x) == IF x = <<>> THEN 0 ELSE x[1]

RECURSIVE SumSeq(_)
SumSeq(q) == IF q = <<>> THEN 0 ELSE Head(q) + SumSeq(Tail(q))

\* the dates rs..re, one per day
RECURSIVE DateList(_, _)
DateList(d, re) == IF DateLE(d, re) THEN <<d>> \o DateList(NextDay(d), re) ELSE <<>>

\* the months of the dates, in order, each once
RECURSIVE MonthList(_)
MonthList(dates) ==
    IF dates = <<>> THEN <<>>
    ELSE LET rest == MonthList(Tail(dates))
             ym == <<Head(dates)[1], Head(dates)[2]>>
         IN IF rest # <<>> /\ Head(rest) = ym THEN rest ELSE <<ym>> \o rest

SeqToSet(q) == {q[i] : i \in 1..Len(q)}

\* ReservationService._is_span_payload
IsSpanPayload(p) ==
    p.is_span \/ p.span_start # <<>> \/ p.span_end # <<>>
    \/ DOMAIN p.span_month_matrices # {}

\* the key f"{yy:04d}-{mm:02d}" of a month matrix
MonthKey(ym) == Format04d(ym[1]) \o <<"-">> \o Format02d(ym[2])

\* _get_span_month_matrices, per key: split at the first "-", else at the
\* first ","; both fields must be integers
MonthKeyOk(k) ==
    LET ks == Strip(k)
        sep == IF \E i \in 1..Len(ks) : ks[i] = "-" THEN "-" ELSE ","
        f == Split1(ks, sep)
    IN ks # <<>> /\ Len(f) = 2 /\ IsIntText(f[1]) /\ IsIntText(f[2])

ParseMonthKey(k) ==
    LET ks == Strip(k)
        sep == IF \E i \in 1..Len(ks) : ks[i] = "-" THEN "-" ELSE ","
        f == Split1(ks, sep)
    IN <<IntOf(f[1]), IntOf(f[2])>>

\* ReservationService._get_span_month_matrices: (yy, mm) -> cells; a key that
\* does not parse is dropped
GetSpanMonthMatrices(p) ==
    LET smm == p.span_month_matrices
        ok == {k \in DOMAIN smm : MonthKeyOk(k)}
    IN [ym \in {ParseMonthKey(k) : k \in ok} |->
          SanitizePlanCells(smm[CHOOSE k \in ok : ParseMonthKey(k) = ym])]

AnyCell(cells) == \E k \in DOMAIN cells : Strip(cells[k]) # <<>>

\* a variant of RangeCells that tests C26: a span record with a bound that
\* does not parse is taken by its plan_date
RangeCellsByPlanDate(p, rs, re, months) ==
    LET d0 == ParseIsoDate(p.plan_date)
        mats == GetSpanMonthMatrices(p)
        keep == {k \in DOMAIN mats : k \in SeqToSet(months) /\ AnyCell(mats[k])}
    IN IF IsSpanPayload(p) /\ ParseIsoDate(p.span_start) # NoDate
                           /\ ParseIsoDate(p.span_end) # NoDate
       THEN (IF DateLT(ParseIsoDate(p.span_end), rs) \/ DateLT(re, ParseIsoDate(p.span_start))
             THEN <<>> ELSE [k \in keep |-> mats[k]])
       ELSE IF d0 = NoDate THEN <<>>
       ELSE IF DateLT(d0, rs) \/ DateLT(re, d0) THEN <<>>
       ELSE IF IsSpanPayload(p) THEN [k \in keep |-> mats[k]]
       ELSE [k \in {<<d0[1], d0[2]>>} |-> SanitizePlanCells(p.plan_cells)]

\* lines 898-930: the month matrices a record brings into the range; none
\* when the record is skipped
RangeCells(p, rs, re, months) ==
    IF IsSpanPayload(p)
    THEN LET s0 == IF ParseIsoDate(p.span_start) # NoDate THEN ParseIsoDate(p.span_start) ELSE rs
             s1 == IF ParseIsoDate(p.span_end) # NoDate THEN ParseIsoDate(p.span_end) ELSE re
             mats == GetSpanMonthMatrices(p)
             keep == {k \in DOMAIN mats : k \in SeqToSet(months) /\ AnyCell(mats[k])}
         IN IF DateLT(s1, rs) \/ DateLT(re, s0) THEN <<>>
            ELSE [k \in keep |-> mats[k]]
    ELSE LET d0 == ParseIsoDate(p.plan_date)
         IN IF d0 = NoDate THEN <<>>
            ELSE IF DateLT(d0, rs) \/ DateLT(re, d0) THEN <<>>
            ELSE [k \in {<<d0[1], d0[2]>>} |-> SanitizePlanCells(p.plan_cells)]

\* a variant of RelRecs that tests C12: no record is left out
RelRecsAll(recs, rs, re, months) == {r \in recs : r.id > 0}

\* a variant of RelRecs that tests C27: a span record is taken by its dates
\* alone, with or without a cell in a month of the range
RelRecsByDates(recs, rs, re, months) ==
    {r \in recs :
        /\ r.id > 0
        /\ IF IsSpanPayload(r.payload)
           THEN LET s0 == IF ParseIsoDate(r.payload.span_start) # NoDate
                          THEN ParseIsoDate(r.payload.span_start) ELSE rs
                    s1 == IF ParseIsoDate(r.payload.span_end) # NoDate
                          THEN ParseIsoDate(r.payload.span_end) ELSE re
                IN ~(DateLT(s1, rs) \/ DateLT(re, s0))
           ELSE DOMAIN RangeCells(r.payload, rs, re, months) # {}}

\* rel_recs: the records that intersect the range
RelRecs(recs, rs, re, months) ==
    {r \in recs : r.id > 0 /\ DOMAIN RangeCells(r.payload, rs, re, months) # {}}

\* a variant of PickSingle that tests C16: a value equal to the marker is
\* left out of the distinct values
PickSingleNoMarker(values) ==
    LET vals == {Strip(v) : v \in values} \ {<<>>, COKLU}
    IN IF vals = {} THEN <<>>
       ELSE IF Cardinality(vals) = 1 THEN CHOOSE v \in vals : TRUE
       ELSE COKLU

\* _pick_single: "" for no value, the value when all agree, else the marker
PickSingle(values) ==
    LET vals == {Strip(v) : v \in values} \ {<<>>}
    IN IF vals = {} THEN <<>>
       ELSE IF Cardinality(vals) = 1 THEN CHOOSE v \in vals : TRUE
       ELSE COKLU

\* Repository.get_channel_prices(year) takes one argument; the rollup calls it
\* with (year, advertiser), so the call raises TypeError, which the rollup
\* catches: price_maps[year] = {}
ServicePriceMap(year, advertiser) == <<>>

\* Repository.get_channel_prices(year): (channel_id, month) -> (price_dt, price_odt)
GetChannelPrices(prices, year) ==
    [k \in {<<p.channel_id, p.month>> : p \in {q \in prices : q.year = year}} |->
       LET p == CHOOSE q \in prices : q.year = year /\ q.channel_id = k[1] /\ q.month = k[2]
       IN <<p.price_dt, p.price_odt>>]

\* pm.get((channel_id, month), (0.0, 0.0)) and the daypart's side of it
UnitPrice(pm, ch_id, month, dtodt) ==
    IF <<ch_id, month>> \in DOMAIN pm
    THEN (IF dtodt = "DT" THEN pm[<<ch_id, month>>][1] ELSE pm[<<ch_id, month>>][2])
    ELSE 0

\* list_channels order: name COLLATE NOCASE (equal names: the older row first)
ChannelLT(a, b) ==
    \/ StrLT(Lower(a.name), Lower(b.name))
    \/ Lower(a.name) = Lower(b.name) /\ a.id < b.id

RECURSIVE SortChannels(_)
SortChannels(S) ==
    IF S = {} THEN <<>>
    ELSE LET first == CHOOSE c \in S : \A d \in S \ {c} : ChannelLT(c, d)
         IN <<first>> \o SortChannels(S \ {first})

\* norm in ch_by_norm
KnownNorm(chans, norm) == \E c \in chans : NormName(c.name) = norm

\* ch_by_norm[norm]: the channel of a normalized name (the last of the list wins)
ChByNorm(chans, norm) ==
    LET same == {c \in chans : NormName(c.name) = norm}
    IN CHOOSE c \in same : \A d \in same \ {c} : ChannelLT(d, c)

\* a variant of DisplayChannels that tests C18: the active channels only
DisplayChannelsActive(chans, rel) == {c \in chans : c.is_active = 1}

\* display_channels: every active channel, and each channel a record of the
\* range names that is not active
DisplayChannels(chans, rel) ==
    LET used == {NormName(r.payload.channel_name) : r \in rel} \ {<<>>}
    IN {c \in chans : c.is_active = 1}
       \cup {ChByNorm(chans, nm) : nm \in {n \in used : KnownNorm(chans, n)}}

\* a variant of CodeMapDur that tests C23: a code the record does not define
\* takes the duration another record of the plan title gives it
CodeMapDurOfPlan(p, cell_code) ==
    LET own == {i \in 1..Len(p.code_defs) : Upper(Strip(p.code_defs[i].code)) = cell_code}
        others == {d.duration_sec :
                     d \in {e \in UNION {SeqToSet(r.payload.code_defs)
                                           : r \in {x \in reservations :
                                                      x.plan_title = p.plan_title}} :
                              Upper(Strip(e.code)) = cell_code}}
    IN IF own # {} THEN p.code_defs[CHOOSE i \in own : \A j \in own : j <= i].duration_sec
       ELSE IF others # {} THEN CHOOSE d \in others : \A e \in others : e <= d
       ELSE 0

\* code_map of a record: upper-cased code -> duration, a later definition of
\* a code replacing an earlier one; the single-code fields when it is empty
CodeMapDur(p, cell_code) ==
    LET defs == p.code_defs
        named == {i \in 1..Len(defs) : Strip(defs[i].code) # <<>>}
        hits == {i \in named : Upper(Strip(defs[i].code)) = cell_code}
    IN IF named # {}
       THEN (IF hits = {} THEN 0
             ELSE defs[CHOOSE i \in hits : \A j \in hits : j <= i].duration_sec)
       ELSE IF Upper(Strip(p.spot_code)) # <<>> /\ Upper(Strip(p.spot_code)) = cell_code
       THEN p.spot_duration_sec
       ELSE 0

\* row_idx_s, day_s = str(k).split(","); int(row_idx_s); int(day_s)
KeyOk(k) ==
    LET f == Split(k, ",") IN Len(f) = 2 /\ IsIntText(f[1]) /\ IsIntText(f[2])

KeyRow(k) == IntOf(Split(k, ",")[1])

KeyDay(k) == IntOf(Split(k, ",")[2])

\* lines 1059-1117: the cells the scan counts, as <<record, month, key>>:
\* the record names a channel, the value is not blank, the key splits into two
\* fields, the day is a date of the month, and the date is in the range.
\* cellsOf is cells_by_id_month.
CountedCells(cellsOf, dates) ==
    { h \in UNION { UNION { { <<r, ym, k>> : k \in DOMAIN cellsOf[r][ym] }
                            : ym \in DOMAIN cellsOf[r] }
                    : r \in DOMAIN cellsOf } :
        /\ NormName(h[1].payload.channel_name) # <<>>
        /\ Strip(cellsOf[h[1]][h[2]][h[3]]) # <<>>
        /\ KeyOk(h[3])
        /\ IsValidDate(h[2][1], h[2][2], KeyDay(h[3]))
        /\ <<h[2][1], h[2][2], KeyDay(h[3])>> \in SeqToSet(dates) }

HitDate(h) == <<h[2][1], h[2][2], KeyDay(h[3])>>

HitDtOdt(h) == ClassifyDtOdt(RowIdxToTime(KeyRow(h[3])))

HitChannel(h) == NormName(h[1].payload.channel_name)

\* dur = code_map.get(cell_code, 0.0)
HitDur(h, cellsOf) ==
    CodeMapDur(h[1].payload, Upper(Strip(cellsOf[h[1]][h[2]][h[3]])))

\* budgets[key] += dur * unit_price, when the record's channel is a known one
HitBudget(h, cellsOf, chans) ==
    LET ch == ChByNorm(chans, HitChannel(h))
    IN IF ~KnownNorm(chans, HitChannel(h)) THEN 0
       ELSE HitDur(h, cellsOf)
            * UnitPrice(ServicePriceMap(HitDate(h)[1], <<>>), ch.id, HitDate(h)[2], HitDtOdt(h))

\* what the scan adds for one counted cell: 1 to counts[key], dur to
\* seconds[key] and dur * unit_price to budgets[key], key = (channel, dt_odt, date)
Hit(h, cellsOf, chans) ==
    [ rid |-> h[1].id, ym |-> h[2], cell |-> h[3], row_idx |-> KeyRow(h[3]),
      channel |-> HitChannel(h), dt_odt |-> HitDtOdt(h), date |-> HitDate(h),
      dur |-> HitDur(h, cellsOf), budget |-> HitBudget(h, cellsOf, chans) ]

\* a variant of Hits that tests C11: a cell of a month of the range is counted
\* whatever its day, on the first date of the range when its own is outside
HitsAnyDay(cellsOf, chans, dates) ==
    LET months == MonthList(dates)
        wide == DateList(<<months[1][1], months[1][2], 1>>,
                         <<months[Len(months)][1], months[Len(months)][2],
                           DaysInMonth(months[Len(months)][1], months[Len(months)][2])>>)
    IN {[Hit(h, cellsOf, chans) EXCEPT
           !.date = IF HitDate(h) \in SeqToSet(dates) THEN HitDate(h) ELSE dates[1]]
          : h \in CountedCells(cellsOf, wide)}

Hits(cellsOf, chans, dates) ==
    {Hit(h, cellsOf, chans) : h \in CountedCells(cellsOf, dates)}

\* counts.get(key, 0), seconds.get(key, 0.0), budgets.get(key, 0.0)
KeyHits(hits, channel, dt_odt, dd) ==
    {x \in hits : x.channel = channel /\ x.dt_odt = dt_odt /\ x.date = dd}

Counts(hits, channel, dt_odt, dd) == Cardinality(KeyHits(hits, channel, dt_odt, dd))

Seconds(hits, channel, dt_odt, dd) ==
    SumFn([x \in KeyHits(hits, channel, dt_odt, dd) |-> x.dur])

Budgets(hits, channel, dt_odt, dd) ==
    SumFn([x \in KeyHits(hits, channel, dt_odt, dd) |-> x.budget])

\* _unit_price_display: no price resolved gives ""
UnitPriceDisplay(ch_id, dtodt, months) ==
    LET prices == {UnitPrice(ServicePriceMap(months[i][1], <<>>), ch_id, months[i][2], dtodt)
                     : i \in 1..Len(months)} \ {0}
    IN IF prices = {} THEN <<>>
       ELSE IF Cardinality(prices) = 1 THEN <<CHOOSE x \in prices : TRUE>>
       ELSE COKLU

\* the list f[1], ..., f[n]
RECURSIVE ListOf(_, _)
ListOf(f, n) == IF n = 0 THEN <<>> ELSE Append(ListOf(f, n - 1), f[n])

\* a variant of MonthIdxs that tests C13: a month takes the dates of the range
MonthIdxsAll(dates, ym) == 1..Len(dates)

\* idxs = [i for i, dd in enumerate(dates) if dd.year == yy and dd.month == mm]
MonthIdxs(dates, ym) ==
    {i \in 1..Len(dates) : dates[i][1] = ym[1] /\ dates[i][2] = ym[2]}

\* lines 1149-1183: the row of a channel and a daypart
OzetRow(ch, dtodt, hits, dates, months) ==
    LET nm == NormName(ch.name)
        day_vals == ListOf([i \in 1..Len(dates) |-> Counts(hits, nm, dtodt, dates[i])],
                           Len(dates))
        day_secs == ListOf([i \in 1..Len(dates) |-> Seconds(hits, nm, dtodt, dates[i])],
                           Len(dates))
        day_bud == ListOf([i \in 1..Len(dates) |-> Budgets(hits, nm, dtodt, dates[i])],
                          Len(dates))
        m_adet(ym) == SumFn([i \in MonthIdxs(dates, ym) |-> day_vals[i]])
        m_san(ym) == SumFn([i \in MonthIdxs(dates, ym) |-> day_secs[i]])
    IN [ channel |-> ch.name,
         dt_odt |-> dtodt,
         days |-> ListOf([i \in 1..Len(dates) |-> Shown(day_vals[i])], Len(dates)),
         month_cols |-> ListOf([j \in 1..(2 * Len(months)) |->
                                  IF j % 2 = 1 THEN Shown(m_adet(months[(j + 1) \div 2]))
                                  ELSE Shown(m_san(months[j \div 2]))],
                               2 * Len(months)),
         unit_price |-> UnitPriceDisplay(ch.id, dtodt, months),
         budget |-> Shown(SumSeq(day_bud)) ]

\* a variant of OzetTotals that tests C10: the totals are those of the last row
OzetTotalsLastRow(rows_out, ndates, nmonths) ==
    [ days |-> ListOf([i \in 1..ndates |-> rows_out[Len(rows_out)].days[i]], ndates),
      month_cols |-> ListOf([j \in 1..(2 * nmonths) |-> rows_out[Len(rows_out)].month_cols[j]],
                            2 * nmonths),
      budget |-> rows_out[Len(rows_out)].budget ]

\* lines 1185-1213: the totals over the rows
OzetTotals(rows_out, ndates, nmonths) ==
    [ days |-> ListOf([i \in 1..ndates |->
                   Shown(SumFn([r \in 1..Len(rows_out) |-> Val(rows_out[r].days[i])]))],
                   ndates),
      month_cols |-> ListOf([j \in 1..(2 * nmonths) |->
                   Shown(SumFn([r \in 1..Len(rows_out) |-> Val(rows_out[r].month_cols[j])]))],
                   2 * nmonths),
      budget |-> Shown(SumFn([r \in 1..Len(rows_out) |-> Val(rows_out[r].budget)])) ]

\* time(h, m) raises for a row index outside the day: the rollup raises
OzetRaises(hits) == \E x \in hits : ~IsValidTime(RowIdxToTime(x.row_idx))

\* row_s, day_s = str(k).split(",", 1); int(row_s); int(day_s)
Key1Ok(k) ==
    LET f == Split1(k, ",") IN Len(f) = 2 /\ IsIntText(f[1]) /\ IsIntText(f[2])

Key1Row(k) == IntOf(Split1(k, ",")[1])

Key1Day(k) == IntOf(Split1(k, ",")[2])

\* sorted(set of texts): by code points
RECURSIVE SortTexts(_)
SortTexts(S) ==
    IF S = {} THEN <<>>
    ELSE LET first == CHOOSE t \in S : \A u \in S \ {t} : StrLT(t, u)
         IN <<first>> \o SortTexts(S \ {first})

\* re.match(r"^[A-Z]-([0-9]{4})W([0-9]{2})-([0-9]+)$", s)
ResNoMatches(s) ==
    /\ Len(s) >= 12
    /\ s[1] \in {"A","B","C","D","E","F","G","H","I","J","K","L","M",
                 "N","O","P","Q","R","S","T","U","V","W","X","Y","Z"}
    /\ s[2] = "-" /\ s[7] = "W" /\ s[10] = "-"
    /\ \A i \in (3..6) \cup (8..9) \cup (11..Len(s)) : IsDigit(s[i])

\* _sort_reservation_no: (year, week, seq, s) of a number of the format,
\* (9999, 99, 999999999, s) of another text
SortReservationNo(no) ==
    LET s == Strip(no)
    IN IF ResNoMatches(s)
       THEN <<ParseInt(SubSeq(s, 3, 6)), ParseInt(SubSeq(s, 8, 9)),
              ParseInt(SubSeq(s, 11, Len(s))), s>>
       ELSE <<9999, 99, 999999999, s>>

\* lines 959-976: reservation_no_display as its lines: none for "", the
\* number when there is one, else the marker line and the numbers, sorted as
\* texts
ResNoDisplay(hdr_recs) ==
    LET resnos == {Strip(IF r.reservation_no # None THEN r.reservation_no ELSE <<>>)
                     : r \in hdr_recs} \ {<<>>}
        res_nos_sorted == SortTexts(resnos)
    IN IF Len(res_nos_sorted) = 0 THEN <<>>
       ELSE IF Len(res_nos_sorted) = 1 THEN <<res_nos_sorted[1]>>
       ELSE <<COKLU>> \o res_nos_sorted

\* _iter_cells: the cells of a payload with a code, as <<yy, mm, row, day, code>>
IterCells(p) ==
    LET of(ym, cells) ==
          {<<ym[1], ym[2], Key1Row(k), Key1Day(k), Upper(Strip(cells[k]))>>
             : k \in {x \in DOMAIN cells : Upper(Strip(cells[x])) # <<>> /\ Key1Ok(x)}}
    IN IF IsSpanPayload(p)
       THEN UNION {of(ym, GetSpanMonthMatrices(p)[ym]) : ym \in DOMAIN GetSpanMonthMatrices(p)}
       ELSE IF ParseIsoDate(p.plan_date) = NoDate THEN {}
       ELSE of(<<ParseIsoDate(p.plan_date)[1], ParseIsoDate(p.plan_date)[2]>>,
               SanitizePlanCells(p.plan_cells))

\* code in code_map
CodeMapHas(p, code) ==
    LET named == {i \in 1..Len(p.code_defs) : Strip(p.code_defs[i].code) # <<>>}
    IN IF named # {}
       THEN \E i \in named : Upper(Strip(p.code_defs[i].code)) = code
       ELSE Upper(Strip(p.spot_code)) # <<>> /\ Upper(Strip(p.spot_code)) = code

\* get_kod_tanimi_rows: length_sn of a code over the confirmed reservations of
\* the plan title, the newest record read first: the duration of the last
\* record read that uses and defines the code, 0 when none defines it
KodTanimiLength(recs, code) ==
    LET defining == {r \in recs : /\ \E c \in IterCells(r.payload) : c[5] = code
                                 /\ CodeMapHas(r.payload, code)}
    IN IF defining = {} THEN 0
       ELSE CodeMapDur((CHOOSE r \in defining : \A r2 \in defining : r.id <= r2.id).payload,
                       code)

\* get_kod_tanimi_len_display: "" for no length, the length when all codes
\* have one length, else the marker
KodTanimiLenDisplay(rows, plan_title) ==
    LET recs == ListConfirmedByPlanTitle(rows, plan_title)
        codes == UNION {{c[5] : c \in IterCells(r.payload)} : r \in recs}
        lens == {KodTanimiLength(recs, code) : code \in codes} \ {0}
    IN IF lens = {} THEN <<>>
       ELSE IF Cardinality(lens) = 1 THEN FormatInt(CHOOSE x \in lens : TRUE)
       ELSE COKLU

\* get_kod_tanimi_rows: the codes the cells of the plan title hold, each with
\* its length
KodTanimiRows(rows, plan_title) ==
    LET recs == ListConfirmedByPlanTitle(rows, plan_title)
        codes == UNION {{c[5] : c \in IterCells(r.payload)} : r \in recs}
    IN {[code |-> code, length_sn |-> KodTanimiLength(recs, code)] : code \in codes}

\* get_spotlist_rows: one row for each cell of the plan title with a date,
\* the duration looked up in the code map of the record of the cell
SpotlistRows(rows, plan_title) ==
    LET recs == IF Strip(plan_title) = <<>> THEN {}
                ELSE ListConfirmedByPlanTitle(rows, plan_title)
        cellsOf(r) == {c \in IterCells(r.payload) : IsValidDate(c[1], c[2], c[4])}
    IN IF \E r \in recs : \E c \in cellsOf(r) : ~IsValidTime(RowIdxToTime(c[3]))
       THEN [error |-> "ValueError"]
       ELSE [spots |-> UNION {{[reservation_id |-> r.id, date |-> <<c[1], c[2], c[4]>>,
                                row_idx |-> c[3], spot_kodu |-> c[5],
                                dt_odt |-> ClassifyDtOdt(RowIdxToTime(c[3])),
                                sure |-> CodeMapDur(r.payload, c[5])] : c \in cellsOf(r)}
                              : r \in recs}]

\* f"{rs:%d.%m.%Y}-{re:%d.%m.%Y}"
Period(rs, re) ==
    LET dmy(d) == Format02d(d[3]) \o <<".">> \o Format02d(d[2]) \o <<".">> \o Format04d(d[1])
    IN dmy(rs) \o <<"-">> \o dmy(re)

\* get_plan_ozet_range_data
PlanOzetRange(rows, chans, plan_title, start, end) ==
    LET pt == Strip(plan_title)
        rs == IF DateLE(start, end) THEN start ELSE end
        re == IF DateLE(start, end) THEN end ELSE start
        dates == DateList(rs, re)
        months == MonthList(dates)
        recs == ListConfirmedByPlanTitle(rows, pt)
        rel == RelRecs(recs, rs, re, months)
        cellsOf == [r \in rel |-> RangeCells(r.payload, rs, re, months)]
        hdr_recs == IF rel # {} THEN rel ELSE recs
        hits == Hits(cellsOf, chans, dates)
        chs == SortChannels(DisplayChannels(chans, rel))
        rows_out == ListOf([i \in 1..(2 * Len(chs)) |->
                              OzetRow(chs[(i + 1) \div 2], IF i % 2 = 1 THEN "DT" ELSE "ODT",
                                      hits, dates, months)],
                           2 * Len(chs))
    IN IF pt = <<>> \/ start = NoDate \/ end = NoDate
       THEN [ header |-> <<>>, start |-> start, end |-> end, dates |-> <<>>,
              months |-> <<>>, rows |-> <<>>, totals |-> <<>> ]
       ELSE IF OzetRaises(hits) THEN [error |-> "ValueError"]
       ELSE [ header |-> [ agency |-> PickSingle({r.payload.agency_name : r \in hdr_recs}),
                           advertiser |-> PickSingle({r.payload.advertiser_name : r \in hdr_recs}),
                           product |-> PickSingle({r.payload.product_name : r \in hdr_recs}),
                           plan_title |-> pt,
                           reservation_no |-> ResNoDisplay(hdr_recs),
                           period |-> Period(rs, re),
                           spot_len |-> KodTanimiLenDisplay(rows, pt) ],
              start |-> rs,
              end |-> re,
              dates |-> dates,
              months |-> months,
              rows |-> rows_out,
              totals |-> OzetTotals(rows_out, Len(dates), Len(months)) ]

\* get_plan_ozet_data (the rollup of one month): a blank title gives an empty
\* table; otherwise the reservations of the month are selected (lines 585-619,
\* nothing there raises) and line 682 calls repo.get_channel_prices(yy, adv_name)
\* outside any try. Repository.get_channel_prices takes the year alone, so the
\* call raises TypeError and the counting of lines 702-753 is never reached.
PlanOzetData(rows, chans, plan_title, year, month) ==
    IF Strip(plan_title) = <<>>
    THEN [ header |-> <<>>, year |-> year, month |-> month, days |-> 0,
           rows |-> <<>>, totals |-> <<>> ]
    ELSE [error |-> "TypeError"]

\* ---------------------------------------------------------------- actions

\* bound: connections (application instances) open on the database file
NConn == 2

Conns == 1..NConn

\* the month the clock shows when the window opens (datetime.now())
GridNow == <<2026, 2>>

\* PlanningGrid._apply_range_visibility: the day columns 1 + day of the month
\* shown are un-hidden, then those of days outside the range are hidden; a
\* column the table does not have is left alone
ApplyRangeVisibility(g) ==
    LET days == 1..DaysInMonth(g.year, g.month)
        cols == {1 + d : d \in {x \in days : 1 + x < g.column_count}}
        out == {1 + d : d \in {x \in days :
                   /\ 1 + x < g.column_count
                   /\ ~(DateLE(g.range_start, <<g.year, g.month, x>>)
                        /\ DateLE(<<g.year, g.month, x>>, g.range_end))}}
    IN IF g.range_start = NoDate \/ g.range_end = NoDate
       THEN [g EXCEPT !.hidden = g.hidden \ cols]
       ELSE [g EXCEPT !.hidden = (g.hidden \ cols) \cup out]

\* PlanningGrid.set_month
SetMonthState(g, year, month, selected_day) ==
    ApplyRangeVisibility(
        [g EXCEPT !.mode = "month", !.span_dates = <<>>, !.span_start = NoDate,
                  !.span_end = NoDate, !.selected_date = NoDate, !.year = year,
                  !.month = month, !.selected_day = selected_day,
                  !.column_count = 2 + DaysInMonth(year, month)])

\* PlanningGrid.__init__: month mode on the month of the clock
InitGrid ==
    SetMonthState([ mode |-> "month", span_dates |-> <<>>, span_start |-> NoDate,
                    span_end |-> NoDate, selected_date |-> NoDate,
                    range_start |-> NoDate, range_end |-> NoDate,
                    year |-> GridNow[1], month |-> GridNow[2], selected_day |-> 0,
                    column_count |-> 0, hidden |-> {} ],
                  GridNow[1], GridNow[2], 0)

\* a variant of SetDateSpanState that tests C19: the arguments are taken as given
SetDateSpanStateNoSwap(g, start, end, selected_date) ==
    LET dates == DateList(start, end)
    IN [g EXCEPT !.span_start = start, !.span_end = end, !.mode = "span",
                 !.range_start = NoDate, !.range_end = NoDate, !.selected_day = 0,
                 !.span_dates = dates,
                 !.selected_date = IF selected_date \in SeqToSet(dates) THEN selected_date
                                   ELSE IF dates # <<>> THEN dates[1] ELSE NoDate,
                 !.year = IF dates # <<>> THEN dates[1][1] ELSE g.year,
                 !.month = IF dates # <<>> THEN dates[1][2] ELSE g.month,
                 !.column_count = 2 + Len(dates)]

\* PlanningGrid.set_date_span: start > end is swapped; the dates start..end
\* become the columns
SetDateSpanState(g, start, end, selected_date) ==
    LET s == IF DateLT(end, start) THEN end ELSE start
        e == IF DateLT(end, start) THEN start ELSE end
        dates == DateList(s, e)
    IN [g EXCEPT !.span_start = s, !.span_end = e, !.mode = "span",
                 !.range_start = NoDate, !.range_end = NoDate, !.selected_day = 0,
                 !.span_dates = dates,
                 !.selected_date = IF selected_date \in SeqToSet(dates) THEN selected_date
                                   ELSE IF dates # <<>> THEN dates[1] ELSE NoDate,
                 !.year = IF dates # <<>> THEN dates[1][1] ELSE g.year,
                 !.month = IF dates # <<>> THEN dates[1][2] ELSE g.month,
                 !.column_count = 2 + Len(dates)]

\* PlanningGrid.set_date_range: None clears the range; end < start is swapped
SetDateRangeState(g, start, end) ==
    IF start = NoDate \/ end = NoDate
    THEN ApplyRangeVisibility([g EXCEPT !.range_start = NoDate, !.range_end = NoDate])
    ELSE ApplyRangeVisibility(
             [g EXCEPT !.range_start = IF DateLT(end, start) THEN end ELSE start,
                       !.range_end = IF DateLT(end, start) THEN start ELSE end])

\* a connection outside a transaction
NoTx == [advertiser_name |-> <<>>, when |-> <<0, 0>>, snap |-> 0, seq |-> 0]

Init ==
    /\ meta = FormatInt(SeedSeq)
    /\ reservations = {}
    /\ lastRowid = 0
    /\ advertisers = {}
    /\ channels = SeedChannels
    /\ lastChannelId = 3
    /\ current_confirmed = <<>>
    /\ call = [op |-> "init"]
    /\ ret = NoRet
    /\ issued = <<>>
    /\ retBefore = NoRet
    /\ pc = [c \in Conns |-> "idle"]
    /\ tx = [c \in Conns |-> NoTx]
    /\ writer = 0
    /\ dbVersion = 0
    /\ channel_prices = {}
    /\ plan_grid = InitGrid

\* MainWindow.on_confirm: ReservationService.confirm on the form's draft; the
\* result becomes current_confirmed, an error leaves it as it was
Confirm(draft, plan_cells) ==
    /\ call' = [op |-> "confirm", draft |-> draft]
    /\ IF ConfirmError(draft) # ""
       THEN /\ ret' = [error |-> ConfirmError(draft)]
            /\ UNCHANGED current_confirmed
       ELSE /\ ret' = [payload |-> ConfirmPayload(draft, plan_cells)]
            /\ current_confirmed' = <<ConfirmPayload(draft, plan_cells)>>
    /\ retBefore' = NoRet
    /\ UNCHANGED <<storeVars, issued, connVars, auxVars>>

\* MainWindow.on_test_export / ReservationService.export_test: the payload
\* handed to the exporter carries reservation_no ""
ExportTest ==
    /\ current_confirmed # <<>>
    /\ call' = [op |-> "export_test"]
    /\ ret' = [payload |-> current_confirmed[1], reservation_no |-> <<>>]
    /\ retBefore' = NoRet
    /\ UNCHANGED <<storeVars, current_confirmed, auxVars, issued, connVars>>

\* the store after a transaction
Commit(st) ==
    /\ meta' = st.meta
    /\ reservations' = st.reservations
    /\ lastRowid' = st.lastRowid
    /\ advertisers' = st.advertisers
    /\ issued' = st.issued

\* MainWindow.on_save_export / ReservationService.save_and_export
SaveAndExport(when) ==
    LET st == CreateReservation(Store, current_confirmed[1].advertiser_name,
                                current_confirmed[1], TRUE, when)
    IN /\ current_confirmed # <<>>
       /\ lastRowid < MaxRowid
       /\ call' = [op |-> "save_and_export"]
       /\ Commit(st)
       /\ ret' = st.ret
       /\ retBefore' = NoRet
       /\ UNCHANGED <<channels, lastChannelId, current_confirmed, auxVars, connVars>>

\* Repository.create_reservation(confirmed=False)
CreateUnconfirmed(draft, plan_cells) ==
    LET st == CreateReservation(Store, Strip(draft.advertiser_name),
                                ConfirmPayload(draft, plan_cells), FALSE, <<0, 0>>)
    IN /\ ConfirmError(draft) = ""
       /\ lastRowid < MaxRowid
       /\ call' = [op |-> "create_unconfirmed"]
       /\ Commit(st)
       /\ ret' = st.ret
       /\ retBefore' = NoRet
       /\ UNCHANGED <<channels, lastChannelId, current_confirmed, auxVars, connVars>>

\* PlanningGrid.get_matrix: the cells of the month shown, keyed "row,day";
\* grid is the table, <<row, date>> -> the text of the item
GridMatrix(grid, ym) ==
    LET used == {e \in DOMAIN grid : e[2][1] = ym[1] /\ e[2][2] = ym[2]
                                     /\ Strip(grid[e]) # <<>>}
    IN [k \in {CellKey(e[1], e[2][3]) : e \in used} |->
          Strip(grid[CHOOSE e \in used : CellKey(e[1], e[2][3]) = k])]

\* PlanningGrid.get_span_month_matrices: (year, month) -> {"row,day": code}
GridSpanMonthMatrices(grid) ==
    LET used == {e \in DOMAIN grid : Strip(grid[e]) # <<>>}
    IN [ym \in {<<e[2][1], e[2][2]>> : e \in used} |-> GridMatrix(grid, ym)]

\* on_save: month_matrices of the form
MonthMatrices(form) ==
    IF form.span_mode THEN GridSpanMonthMatrices(form.grid)
    ELSE [ym \in {<<form.in_date[1], form.in_date[2]>>} |-> GridMatrix(form.grid, ym)]

\* on_save, span mode: span_month_matrices_db, keyed "YYYY-MM"
SpanMonthMatricesDb(month_matrices) ==
    LET keep == {ym \in DOMAIN month_matrices : AnyCell(month_matrices[ym])}
    IN [k \in {MonthKey(ym) : ym \in keep} |->
          month_matrices[CHOOSE ym \in keep : MonthKey(ym) = k]]

\* on_save, span mode: merged_cells, keyed "row,YYYYMMDD"
MergedCells(month_matrices) ==
    LET keep == {ym \in DOMAIN month_matrices : AnyCell(month_matrices[ym])}
        src == UNION { { <<ym, k>> : k \in {x \in DOMAIN month_matrices[ym] :
                              Strip(month_matrices[ym][x]) # <<>> /\ Key1Ok(x)} }
                       : ym \in keep }
        keyOf(e) == FormatInt(Key1Row(e[2])) \o <<",">> \o Format04d(e[1][1])
                    \o Format02d(e[1][2]) \o Format02d(Key1Day(e[2]))
    IN [k \in {keyOf(e) : e \in src} |->
          LET e == CHOOSE e \in src : keyOf(e) = k
          IN Strip(month_matrices[e[1]][e[2]])]

\* on_save: the ReservationDraft of the form for one channel
FormDraft(form, ch_name, plan_date) ==
    [ advertiser_name |-> Strip(form.advertiser_name),
      plan_title |-> Strip(form.plan_title),
      plan_date |-> plan_date,
      channel_name |-> ch_name,
      agency_name |-> Strip(form.agency_name),
      product_name |-> Strip(form.product_name),
      spot_code |-> Strip(form.spot_code),
      spot_duration_sec |-> form.spot_duration_sec,
      code_defs |-> form.code_defs ]

\* on_save, span mode: payload2
SpanPayload(form, ch_name) ==
    [ ConfirmPayload(FormDraft(form, ch_name, form.range_start),
                     MergedCells(MonthMatrices(form)))
        EXCEPT !.is_span = TRUE,
               !.span_start = IsoFormat(form.range_start),
               !.span_end = IsoFormat(form.range_end),
               !.span_month_matrices = SpanMonthMatricesDb(MonthMatrices(form)) ]

\* on_save, month mode: the payload of confirm() for the month of in_date,
\* plan_date its first day
MonthPayload(form, ch_name) ==
    ConfirmPayload(FormDraft(form, ch_name, <<form.in_date[1], form.in_date[2], 1>>),
                   MonthMatrices(form)[<<form.in_date[1], form.in_date[2]>>])

\* on_save: the draft whose confirm() decides
SaveDraft(form, ch_name) ==
    FormDraft(form, ch_name, IF form.span_mode THEN form.range_start
                             ELSE <<form.in_date[1], form.in_date[2], 1>>)

\* on_save: the loop over the selected channels, one confirm() and one
\* create_reservation(confirmed=True) each; an exception ends the loop and
\* leaves what was committed before it
RECURSIVE SaveChannels(_, _, _, _)
SaveChannels(st, form, chs, when) ==
    IF chs = <<>> THEN st
    ELSE IF ConfirmError(SaveDraft(form, Head(chs))) # ""
    THEN [st EXCEPT !.ret = [error |-> ConfirmError(SaveDraft(form, Head(chs)))]]
    ELSE LET payload == IF form.span_mode THEN SpanPayload(form, Head(chs))
                        ELSE MonthPayload(form, Head(chs))
             st2 == CreateReservation(st, Strip(payload.advertiser_name), payload, TRUE, when)
         IN IF "error" \in DOMAIN st2.ret THEN st2
            ELSE SaveChannels(st2, form, Tail(chs), when)

\* MainWindow.on_save: the channels are checked first, then the title, then
\* the cells; then the loop
OnSave(form, when) ==
    LET chs == IF form.selected_channels # <<>> THEN form.selected_channels
               ELSE IF Strip(form.in_channel) # <<>> THEN <<Strip(form.in_channel)>>
               ELSE <<>>
        st == SaveChannels(Store, form, chs, when)
    IN /\ lastRowid + Len(chs) <= MaxRowid
       /\ call' = [op |-> "on_save", draft |-> SaveDraft(form, IF chs = <<>> THEN <<>> ELSE chs[1])]
       /\ retBefore' = NoRet
       /\ UNCHANGED <<channels, lastChannelId, current_confirmed, auxVars, connVars>>
       /\ IF chs = <<>>
          THEN /\ ret' = [warning |-> "channel"]
               /\ UNCHANGED <<meta, reservations, lastRowid, advertisers, issued>>
          ELSE IF Strip(form.plan_title) = <<>>
          THEN /\ ret' = [warning |-> "plan_title"]
               /\ UNCHANGED <<meta, reservations, lastRowid, advertisers, issued>>
          ELSE IF DOMAIN SpanMonthMatricesDb(MonthMatrices(form)) = {}
          THEN /\ ret' = [warning |-> "no cell"]
               /\ UNCHANGED <<meta, reservations, lastRowid, advertisers, issued>>
          ELSE /\ Commit(st)
               /\ ret' = st.ret

\* MainWindow.on_reservation_delete / Repository.delete_reservations_by_ids
DeleteReservationsByIds(ids) ==
    /\ call' = [op |-> "delete", ids |-> ids]
    /\ reservations' = {r \in reservations : r.id \notin ids}
    /\ ret' = NoRet
    /\ retBefore' = NoRet
    /\ UNCHANGED <<meta, lastRowid, advertisers, channels, lastChannelId,
                   current_confirmed, auxVars, issued, connVars>>

\* ReservationService.delete_kod_for_plan_title / remove_code_from_plan_title
DeleteKodForPlanTitle(plan_title, code) ==
    /\ call' = [op |-> "delete_kod", plan_title |-> plan_title, code |-> code]
    /\ reservations' = RemoveCodeRows(reservations, plan_title, code)
    /\ ret' = [count |-> Cardinality({r \in ListConfirmedByPlanTitle(reservations, plan_title) :
                                        Upper(Strip(code)) # <<>>
                                        /\ RemoveCodeTouches(r.payload, Upper(Strip(code)))})]
    /\ retBefore' = NoRet
    /\ UNCHANGED <<meta, lastRowid, advertisers, channels, lastChannelId,
                   current_confirmed, auxVars, issued, connVars>>

\* Repository.update_channel_name (channels.name is UNIQUE: a taken name raises)
UpdateChannelName(channel_id, new_name) ==
    LET nm == Strip(new_name)
    IN /\ nm # <<>>
       /\ call' = [op |-> "update_channel_name"]
       /\ IF \E c \in channels : c.name = nm /\ c.id # channel_id
          THEN /\ UNCHANGED channels
               /\ ret' = [error |-> "IntegrityError"]
          ELSE /\ channels' = {IF c.id = channel_id THEN [c EXCEPT !.name = nm] ELSE c : c \in channels}
               /\ ret' = NoRet
       /\ retBefore' = NoRet
       /\ UNCHANGED <<meta, reservations, lastRowid, advertisers, lastChannelId,
                      current_confirmed, auxVars, issued, connVars>>

\* Repository.deactivate_channel
DeactivateChannel(channel_id) ==
    /\ call' = [op |-> "deactivate_channel"]
    /\ channels' = {IF c.id = channel_id THEN [c EXCEPT !.is_active = 0] ELSE c : c \in channels}
    /\ ret' = NoRet
    /\ retBefore' = NoRet
    /\ UNCHANGED <<meta, reservations, lastRowid, advertisers, lastChannelId,
                   current_confirmed, auxVars, issued, connVars>>

\* a variant of GetPlanOzetRangeData that tests C7: the per-day totals of a
\* repeated call are added to those of the call before
GetPlanOzetRangeDataAccum(plan_title, start, end) ==
    LET r == PlanOzetRange(reservations, channels, plan_title, start, end)
    IN /\ call' = [op |-> "ozet", plan_title |-> plan_title, start |-> start, end |-> end]
       /\ ret' = IF call = call' /\ "totals" \in DOMAIN r /\ r.dates # <<>>
                 THEN [r EXCEPT !.totals.days =
                         ListOf([i \in 1..Len(r.dates) |->
                                   Shown(Val(r.totals.days[i]) + Val(ret.totals.days[i]))],
                                Len(r.dates))]
                 ELSE r
       /\ retBefore' = IF call = call' THEN ret ELSE NoRet
       /\ UNCHANGED <<storeVars, current_confirmed, auxVars, issued, connVars>>

\* Repository.upsert_channel_price: one row per (year, month, channel_id)
UpsertChannelPrice(year, month, channel_id, price_dt, price_odt) ==
    /\ channel_prices' =
          {p \in channel_prices :
             ~(p.year = year /\ p.month = month /\ p.channel_id = channel_id)}
          \cup {[year |-> year, month |-> month, channel_id |-> channel_id,
                  price_dt |-> price_dt, price_odt |-> price_odt]}
    /\ call' = [op |-> "upsert_channel_price"]
    /\ ret' = NoRet
    /\ retBefore' = NoRet
    /\ UNCHANGED <<storeVars, current_confirmed, plan_grid, issued, connVars>>

\* PlanningGrid.set_date_span
SetDateSpan(start, end, selected_date) ==
    /\ plan_grid' = SetDateSpanState(plan_grid, start, end, selected_date)
    /\ call' = [op |-> "set_date_span", start |-> start, end |-> end,
                selected_date |-> selected_date]
    /\ ret' = NoRet
    /\ retBefore' = NoRet
    /\ UNCHANGED <<storeVars, current_confirmed, channel_prices, issued, connVars>>

\* PlanningGrid.set_date_range
SetDateRange(start, end) ==
    /\ plan_grid' = SetDateRangeState(plan_grid, start, end)
    /\ call' = [op |-> "set_date_range", start |-> start, end |-> end]
    /\ ret' = NoRet
    /\ retBefore' = NoRet
    /\ UNCHANGED <<storeVars, current_confirmed, channel_prices, issued, connVars>>

\* a call of classify_dt_odt with a time of day <<hour, minute, second>>
Classify(t) ==
    /\ call' = [op |-> "classify_dt_odt", t |-> t]
    /\ ret' = [dt_odt |-> ClassifyDtOdt(t)]
    /\ retBefore' = NoRet
    /\ UNCHANGED <<storeVars, current_confirmed, auxVars, issued, connVars>>

\* a call of build_timeslots()
BuildTimeslotsCall ==
    /\ call' = [op |-> "build_timeslots"]
    /\ ret' = [slots |-> BuildTimeslots]
    /\ retBefore' = NoRet
    /\ UNCHANGED <<storeVars, current_confirmed, auxVars, issued, connVars>>

\* a call of _row_idx_to_time(row_idx): time(h, m) raises ValueError for an
\* hour after 23
RowIdxToTimeCall(row_idx) ==
    /\ call' = [op |-> "row_idx_to_time", row_idx |-> row_idx]
    /\ ret' = IF IsValidTime(RowIdxToTime(row_idx)) THEN [time |-> RowIdxToTime(row_idx)]
              ELSE [error |-> "ValueError"]
    /\ retBefore' = NoRet
    /\ UNCHANGED <<storeVars, current_confirmed, auxVars, issued, connVars>>

\* bound: the numbers next_reservation_no hands out
MaxIssued == 8

\* Repository.next_reservation_no(advertiser_name, when): the counter is read,
\* the number is built, the counter is written back one higher
NextReservationNo(advertiser_name, now) ==
    LET seq == ReadSeq(meta)
    IN /\ seq < SeedSeq + MaxIssued
       /\ call' = [op |-> "next_reservation_no", advertiser_name |-> advertiser_name,
                   now |-> now, seq |-> seq]
       /\ ret' = [reservation_no |-> ReservationNo(advertiser_name, IsoCalendar(now), seq)]
       /\ meta' = WriteSeq(seq)
       /\ issued' = Append(issued, seq)
       /\ retBefore' = NoRet
       /\ UNCHANGED <<reservations, lastRowid, advertisers, channels, lastChannelId,
                      current_confirmed, auxVars, connVars>>

\* ReservationService.get_kod_tanimi_rows: the store is read
GetKodTanimiRows(plan_title) ==
    /\ call' = [op |-> "kod_tanimi", plan_title |-> plan_title]
    /\ ret' = [kod |-> KodTanimiRows(reservations, plan_title)]
    /\ retBefore' = NoRet
    /\ UNCHANGED <<storeVars, current_confirmed, auxVars, issued, connVars>>

\* ReservationService.get_spotlist_rows: the store is read
GetSpotlistRows(plan_title) ==
    /\ call' = [op |-> "spotlist", plan_title |-> plan_title]
    /\ ret' = SpotlistRows(reservations, plan_title)
    /\ retBefore' = NoRet
    /\ UNCHANGED <<storeVars, current_confirmed, auxVars, issued, connVars>>

\* ReservationService.get_plan_ozet_data
GetPlanOzetData(plan_title, year, month) ==
    /\ call' = [op |-> "ozet_month", plan_title |-> plan_title, year |-> year, month |-> month]
    /\ ret' = PlanOzetData(reservations, channels, plan_title, year, month)
    /\ retBefore' = NoRet
    /\ UNCHANGED <<storeVars, current_confirmed, auxVars, issued, connVars>>

\* Repository.create_reservation(advertiser_name, payload, confirmed=True)
\* called with a payload as it is
CreateReservationCall(advertiser_name, payload, when) ==
    LET st == CreateReservation(Store, advertiser_name, payload, TRUE, when)
    IN /\ lastRowid < MaxRowid
       /\ call' = [op |-> "create_reservation", advertiser_name |-> advertiser_name]
       /\ Commit(st)
       /\ ret' = st.ret
       /\ retBefore' = NoRet
       /\ UNCHANGED <<channels, lastChannelId, current_confirmed, auxVars, connVars>>

\* MainWindow.refresh_plan_ozet / ReservationService.get_plan_ozet_range_data:
\* the store is read, nothing is written
GetPlanOzetRangeData(plan_title, start, end) ==
    /\ call' = [op |-> "ozet", plan_title |-> plan_title, start |-> start, end |-> end]
    /\ ret' = PlanOzetRange(reservations, channels, plan_title, start, end)
    /\ retBefore' = IF call = call' THEN ret ELSE NoRet
    /\ UNCHANGED <<storeVars, current_confirmed, auxVars, issued, connVars>>

\* ------------------------------------------------------- inputs and bounds

ADV == <<"m", "b">>

BLANK == <<" ">>

TITLE == <<"K", "1">>

TITLE_ARG == <<" ", "K", "1">>

D_JAN31 == <<2026, 1, 31>>

D_FEB01 == <<2026, 2, 1>>

D_FEB02 == <<2026, 2, 2>>

\* <<ISO year, ISO week>> of the clock at a confirmation
Weeks == {<<2026, 5>>}

\* the code table of the form: "a" twice, in two cases
CodeDefsUi ==
    << [code |-> <<"a">>, duration_sec |-> 30],
       [code |-> <<"B">>, duration_sec |-> 15],
       [code |-> <<"A">>, duration_sec |-> 20] >>

\* contents of the planning table: row 0 is 07:00 (DT), row 12 is 10:00 (ODT)
GridEmpty == <<>>

GridFeb == (<<0, D_FEB01>> :> <<"a">>) @@ (<<12, D_FEB01>> :> <<"B">>)

GridSpan == (<<0, D_JAN31>> :> <<"A">>) @@ (<<4, D_FEB01>> :> <<"B", " ">>)

\* plan_cells handed to confirm()
CellsA == (CellKey(0, 1) :> <<"a">>)

CellsAB == (CellKey(0, 1) :> <<"a">>) @@ (CellKey(12, 2) :> <<"B">>)

Draft(a, t, d) ==
    [ advertiser_name |-> a, plan_title |-> t, plan_date |-> d,
      channel_name |-> TRT_FM, agency_name |-> <<"A", "G">>, product_name |-> <<>>,
      spot_code |-> <<>>, spot_duration_sec |-> 0, code_defs |-> CodeDefsUi ]

\* one draft that confirm() accepts and one for each way it refuses
Drafts ==
    { Draft(ADV, TITLE, D_FEB01), Draft(BLANK, TITLE, D_FEB01),
      Draft(ADV, BLANK, D_FEB01), Draft(ADV, TITLE, NoDate) }

Form(a, t, span, grid, chs, in_channel) ==
    [ advertiser_name |-> a, plan_title |-> t, agency_name |-> <<"A", "G">>,
      product_name |-> <<>>, spot_code |-> <<>>, spot_duration_sec |-> 0,
      code_defs |-> CodeDefsUi, selected_channels |-> chs,
      in_channel |-> in_channel,
      span_mode |-> span, in_date |-> D_FEB02, range_start |-> D_JAN31,
      range_end |-> D_FEB01, grid |-> grid ]

\* the forms of the life cycle: valid and invalid ones, month mode
Forms ==
    { Form(ADV, TITLE, FALSE, GridFeb, <<TRT_FM>>, BLANK),
      Form(ADV, TITLE, FALSE, GridFeb, <<>>, BLANK),
      Form(BLANK, TITLE, FALSE, GridFeb, <<>>, POWER_FM),
      Form(ADV, BLANK, FALSE, GridFeb, <<TRT_FM>>, BLANK),
      Form(ADV, TITLE, FALSE, GridEmpty, <<TRT_FM>>, BLANK) }

\* the channel list of the form: the names of active channels
ActiveName(id) == {c.name : c \in {d \in channels : d.id = id /\ d.is_active = 1}}

SelectedChoices ==
    {<<n>> : n \in ActiveName(1)}
    \cup {<<n, m>> : n \in ActiveName(1), m \in ActiveName(3)}

\* the forms of the rollup: both modes, one or two channels
OzetForms ==
    {Form(ADV, TITLE, FALSE, GridFeb, <<n>>, n) : n \in ActiveName(1)}
    \cup {Form(ADV, TITLE, TRUE, GridSpan, chs, chs[1]) : chs \in SelectedChoices}

\* the rows selected for deletion: none, one, or all
Selections == {{}} \cup {{r.id} : r \in reservations} \cup {{r.id : r \in reservations}}

\* the arguments of the rollup
OzetArgs ==
    { <<TITLE_ARG, D_JAN31, D_FEB02>>, <<TITLE, D_FEB01, D_JAN31>>,
      <<TITLE, D_FEB02, D_FEB02>> }

\* ------------------------------------------------------------ life cycle

Next ==
    \/ \E d \in Drafts : Confirm(d, CellsA)
    \/ ExportTest
    \/ \E w \in Weeks : SaveAndExport(w)
    \/ \E d \in Drafts : CreateUnconfirmed(d, CellsAB)
    \/ \E f \in Forms, w \in Weeks : OnSave(f, w)
    \/ \E ids \in Selections : DeleteReservationsByIds(ids)
    \/ \E code \in {<<"a">>, <<"B">>, BLANK} : DeleteKodForPlanTitle(TITLE_ARG, code)
    \/ GetPlanOzetRangeData(TITLE_ARG, D_FEB01, D_FEB02)

Spec == Init /\ [][Next]_vars

\* ---------------------------------------------------------------- rollup

NextOzet ==
    \/ \E f \in OzetForms, w \in Weeks : OnSave(f, w)
    \/ \E ids \in Selections : DeleteReservationsByIds(ids)
    \/ UpdateChannelName(1, <<"T", "R", "T">>)
    \/ DeactivateChannel(1)
    \/ \E a \in OzetArgs : GetPlanOzetRangeData(a[1], a[2], a[3])

SpecOzet == Init /\ [][NextOzet]_vars

\* -------------------------------------------------- rollup over sub-ranges

\* the draft of on_confirm for a day of January
DraftJan == Draft(ADV, TITLE, D_JAN31)

\* the month matrix handed to confirm(): row 0 (07:00) on the 31st; the same
\* with the 30th too
CellsJan == (CellKey(0, 31) :> <<"a">>)

CellsJan2 == (CellKey(0, 30) :> <<"a">>) @@ (CellKey(0, 31) :> <<"a">>)

\* span tables for 2026-01-31 .. 2026-02-02; row 4 is 08:00 (DT)
GridSpanFeb == (<<4, D_FEB01>> :> <<"a">>)

GridSpan3 ==
    (<<0, D_JAN31>> :> <<"a">>) @@ (<<4, D_FEB01>> :> <<"a">>) @@ (<<4, D_FEB02>> :> <<"B">>)

RangeForms ==
    { [Form(ADV, TITLE, TRUE, g, <<TRT_FM>>, TRT_FM) EXCEPT !.range_end = D_FEB02]
        : g \in {GridSpanFeb, GridSpan3} }

RangeArgs ==
    { <<TITLE, D_JAN31, D_FEB02>>, <<TITLE, D_FEB01, D_FEB01>>,
      <<TITLE, D_FEB02, D_JAN31>>, <<TITLE, D_FEB02, D_FEB02>>,
      <<TITLE, D_JAN31, D_JAN31>> }

NextRange ==
    \/ \E cells \in {CellsJan, CellsJan2} : Confirm(DraftJan, cells)
    \/ \E w \in Weeks : SaveAndExport(w)
    \/ \E f \in RangeForms, w \in Weeks : OnSave(f, w)
    \/ \E ids \in Selections : DeleteReservationsByIds(ids)
    \/ \E a \in RangeArgs : GetPlanOzetRangeData(a[1], a[2], a[3])

SpecRange == Init /\ [][NextRange]_vars

\* ------------------------------------------------ rollup over stored keys

\* month matrices handed to confirm() for January 2026: the cell "0,31" and
\* one more cell under a key of another form
OddKeys ==
    { <<"0", ";", "3", "1">>, <<"0", ",", "3", "1", ",", "1">>, <<"a", ",", "3", "1">>,
      <<"0", ",", "4", "0">>, <<"6", "0", ",", "3", "1">>, <<"9", "9", ",", "3", "1">> }

KeyCells == {CellsJan} \cup {CellsJan @@ (k :> <<"a">>) : k \in OddKeys}

NextKeys ==
    \/ \E cells \in KeyCells : Confirm(DraftJan, cells)
    \/ \E w \in Weeks : SaveAndExport(w)
    \/ \E ids \in Selections : DeleteReservationsByIds(ids)
    \/ GetPlanOzetRangeData(TITLE, D_JAN31, D_JAN31)

SpecKeys == Init /\ [][NextKeys]_vars

\* ------------------------------------------- rollup over span boundaries

\* the payload on_save stores for a span 2026-01-31 .. 2026-02-02 with a cell
\* on each day, and the same with boundaries that do not parse
SpanBase == SpanPayload([Form(ADV, TITLE, TRUE, GridSpan3, <<TRT_FM>>, TRT_FM)
                           EXCEPT !.range_end = D_FEB02], TRT_FM)

SpanPayloads ==
    { SpanBase,
      [SpanBase EXCEPT !.span_start = <<"x">>],
      [SpanBase EXCEPT !.span_start = IsoFormat(D_FEB02), !.span_end = <<"x">>],
      [SpanBase EXCEPT !.span_start = <<>>, !.span_end = <<"x">>] }

SpanArgs ==
    { <<D_JAN31, D_JAN31>>, <<D_FEB01, D_FEB01>>, <<D_FEB02, D_FEB02>>, <<D_JAN31, D_FEB02>> }

NextSpanDates ==
    \/ \E p \in SpanPayloads, w \in Weeks : CreateReservationCall(ADV, p, w)
    \/ \E ids \in Selections : DeleteReservationsByIds(ids)
    \/ \E a \in SpanArgs : GetPlanOzetRangeData(TITLE, a[1], a[2])

SpecSpanDates == Init /\ [][NextSpanDates]_vars

\* -------------------------------------- rollup header and empty records

\* a span table with its one cell on 2026-01-31
GridSpanJan == (<<0, D_JAN31>> :> <<"a">>)

\* span forms of one plan title and two advertisers: 2026-01-31 .. 2026-02-02
\* with the cell on 2026-02-01, the same span with the cell on 2026-01-31, and
\* the one day 2026-01-31
EmptyForms ==
    { [Form(adv, TITLE, TRUE, ge[1], <<TRT_FM>>, TRT_FM) EXCEPT !.range_end = ge[2]]
        : adv \in {ADV, <<"a", "b">>},
          ge \in {<<GridSpanFeb, D_FEB02>>, <<GridSpanJan, D_FEB02>>, <<GridSpanJan, D_JAN31>>} }

NextEmpty ==
    \/ \E f \in EmptyForms, w \in Weeks : OnSave(f, w)
    \/ \E ids \in Selections : DeleteReservationsByIds(ids)
    \/ \E d \in {D_FEB01, D_FEB02} : GetPlanOzetRangeData(TITLE, d, D_FEB02)

SpecEmpty == Init /\ [][NextEmpty]_vars

\* ------------------------------------------- removal of a code, both modes

\* a month form and a span form of the plan title
RemoveForms ==
    { Form(ADV, TITLE, FALSE, GridFeb, <<TRT_FM>>, BLANK),
      [Form(ADV, TITLE, TRUE, GridSpan3, <<TRT_FM>>, TRT_FM) EXCEPT !.range_end = D_FEB02] }

NextRemove ==
    \/ \E f \in RemoveForms, w \in Weeks : OnSave(f, w)
    \/ \E ids \in Selections : DeleteReservationsByIds(ids)
    \/ \E code \in {<<"a">>, <<"B">>} : DeleteKodForPlanTitle(TITLE, code)
    \/ GetKodTanimiRows(TITLE)
    \/ GetSpotlistRows(TITLE)
    \/ GetPlanOzetRangeData(TITLE, D_JAN31, D_FEB02)

SpecRemove == Init /\ [][NextRemove]_vars

\* ------------------------------------------- rollup of one month, two ways

NextMonth ==
    \/ \E f \in RemoveForms, w \in Weeks : OnSave(f, w)
    \/ \E ids \in Selections : DeleteReservationsByIds(ids)
    \/ \E t \in {TITLE, BLANK}, month \in {1, 2} : GetPlanOzetData(t, 2026, month)
    \/ \E month \in {1, 2} :
          GetPlanOzetRangeData(TITLE, <<2026, month, 1>>, <<2026, month, DaysInMonth(2026, month)>>)

SpecMonth == Init /\ [][NextMonth]_vars

\* ------------------------------------------- concurrent create_reservation
\* Several connections run create_reservation(confirmed=True) on one database
\* file in WAL mode (db.py: PRAGMA journal_mode=WAL). A transaction opened by
\* BEGIN is deferred: its first SELECT fixes the snapshot it reads, its first
\* write takes the write lock, which one connection holds at a time, and a
\* write from a snapshot that is no longer the newest is refused
\* (SQLITE_BUSY_SNAPSHOT); a connection that waits for the lock longer than
\* the timeout of sqlite3.connect gives up. Either error reaches the except
\* clause, which rolls back.

\* the payload every connection confirms
ConcPayload(advertiser_name) ==
    ConfirmPayload(Draft(advertiser_name, TITLE, D_FEB01), CellsA)

\* self.conn.execute("BEGIN")
TxBegin(c, advertiser_name, when) ==
    /\ pc[c] = "idle"
    /\ Len(issued) + Cardinality({d \in Conns : pc[d] # "idle"}) < MaxRowid
    /\ pc' = [pc EXCEPT ![c] = "begun"]
    /\ tx' = [tx EXCEPT ![c] = [NoTx EXCEPT !.advertiser_name = advertiser_name,
                                            !.when = when]]
    /\ UNCHANGED <<storeVars, current_confirmed, auxVars, call, ret, issued, retBefore,
                   writer, dbVersion>>

\* next_reservation_no: SELECT value FROM meta; the read fixes the snapshot
TxSelectSeq(c) ==
    /\ pc[c] = "begun"
    /\ pc' = [pc EXCEPT ![c] = "selected"]
    /\ tx' = [tx EXCEPT ![c].snap = dbVersion, ![c].seq = ReadSeq(meta)]
    /\ UNCHANGED <<storeVars, current_confirmed, auxVars, call, ret, issued, retBefore,
                   writer, dbVersion>>

\* a variant of MayWrite that tests C1: the read of the counter is outside
\* the transaction, so only the lock is asked for
MayWriteNoSnapshot(c) == writer = 0

\* the write lock is free and the snapshot of the connection is the newest
MayWrite(c) == writer = 0 /\ tx[c].snap = dbVersion

\* next_reservation_no: UPDATE meta SET value = str(seq + 1); the first write
\* of the transaction takes the write lock
TxUpdateSeq(c) ==
    /\ pc[c] = "selected"
    /\ MayWrite(c)
    /\ writer' = c
    /\ pc' = [pc EXCEPT ![c] = "updated"]
    /\ UNCHANGED <<storeVars, current_confirmed, auxVars, call, ret, issued, retBefore,
                   tx, dbVersion>>

\* the UPDATE raises OperationalError (the lock is held past the timeout, or
\* the snapshot is stale): except: rollback, raise
TxBusy(c) ==
    /\ pc[c] = "selected"
    /\ ~MayWrite(c)
    /\ pc' = [pc EXCEPT ![c] = "idle"]
    /\ tx' = [tx EXCEPT ![c] = NoTx]
    /\ call' = [op |-> "create_reservation", conn |-> c]
    /\ ret' = [error |-> "OperationalError"]
    /\ UNCHANGED <<storeVars, current_confirmed, auxVars, issued, retBefore, writer, dbVersion>>

\* create_reservation: INSERT INTO reservations, upsert_advertiser, commit;
\* a reservation_no that exists raises IntegrityError: rollback, raise
TxInsertCommit(c) ==
    LET st == CreateReservation([Store EXCEPT !.meta = FormatInt(tx[c].seq)],
                                tx[c].advertiser_name,
                                ConcPayload(tx[c].advertiser_name), TRUE, tx[c].when)
    IN /\ pc[c] = "updated"
       /\ Commit(st)
       /\ ret' = st.ret
       /\ call' = [op |-> "create_reservation", conn |-> c]
       /\ dbVersion' = IF "error" \in DOMAIN st.ret THEN dbVersion ELSE dbVersion + 1
       /\ writer' = 0
       /\ pc' = [pc EXCEPT ![c] = "idle"]
       /\ tx' = [tx EXCEPT ![c] = NoTx]
       /\ UNCHANGED <<channels, lastChannelId, current_confirmed, auxVars, retBefore>>

NextConc ==
    \/ \E c \in Conns, a \in {ADV, <<"x">>}, w \in Weeks : TxBegin(c, a, w)
    \/ \E c \in Conns : TxSelectSeq(c)
    \/ \E c \in Conns : TxUpdateSeq(c)
    \/ \E c \in Conns : TxBusy(c)
    \/ \E c \in Conns : TxInsertCommit(c)

SpecConc == Init /\ [][NextConc]_vars

\* ------------------------------------------ create_reservation that fails
\* A database carried over from the legacy schema: _rebuild_reservations_if_legacy
\* copies the rows with their reservation numbers, and migrate_and_seed seeds
\* the counter with 1000 when the meta table has none. The number the counter
\* gives next is then taken, and the INSERT of create_reservation violates
\* UNIQUE(reservation_no).

LegacyRow ==
    NewRow(1, ReservationNo(ADV, <<2026, 5>>, SeedSeq), ADV, ConcPayload(ADV), TRUE)

InitLegacy ==
    /\ meta = FormatInt(SeedSeq)
    /\ reservations = {LegacyRow}
    /\ lastRowid = 1
    /\ advertisers = {}
    /\ channels = SeedChannels
    /\ lastChannelId = 3
    /\ current_confirmed = <<>>
    /\ call = [op |-> "init"]
    /\ ret = NoRet
    /\ issued = <<>>
    /\ retBefore = NoRet
    /\ pc = [c \in Conns |-> "idle"]
    /\ tx = [c \in Conns |-> NoTx]
    /\ writer = 0
    /\ dbVersion = 0
    /\ channel_prices = {}
    /\ plan_grid = InitGrid

\* span forms of two advertisers
AtomicForms ==
    { Form(adv, TITLE, TRUE, GridSpanFeb, <<TRT_FM>>, TRT_FM) : adv \in {ADV, <<"a", "b">>} }

NextAtomic ==
    \/ \E a \in {ADV, <<"a", "b">>, <<"m", "u">>}, w \in Weeks :
          CreateReservationCall(a, ConcPayload(a), w)
    \/ \E cells \in {CellsJan, CellsJan2} : Confirm(DraftJan, cells)
    \/ \E w \in Weeks : SaveAndExport(w)
    \/ \E f \in AtomicForms, w \in Weeks : OnSave(f, w)
    \/ \E ids \in Selections : DeleteReservationsByIds(ids)
    \/ GetPlanOzetRangeData(TITLE, D_FEB01, D_FEB02)

SpecAtomic == InitLegacy /\ [][NextAtomic]_vars

\* ------------------------------------------------------------- properties

\* int of the last field of a reservation number "L-YYYYWww-seq"
SeqOfNo(reservation_no) == ParseInt(Split(reservation_no, "-")[3])

Confirmed(rows) == {r \in rows : r.is_confirmed = 1}

\* C1: under any interleaving of concurrent confirmations, the committed
\* confirmations hold pairwise different sequence numbers, and the numbers are
\* strictly increasing in the order of allocation.
C1_UniqueIncreasing ==
    /\ \A i, j \in 1..Len(issued) : i < j => issued[i] < issued[j]
    /\ \A r1, r2 \in Confirmed(reservations) :
          r1 # r2 => SeqOfNo(r1.reservation_no) # SeqOfNo(r2.reservation_no)
    /\ \A r1, r2 \in Confirmed(reservations) :
          r1.id < r2.id => SeqOfNo(r1.reservation_no) < SeqOfNo(r2.reservation_no)

\* a confirmation has committed the number another connection has read too
C1_Witness ==
    /\ Len(issued) >= 1
    /\ \E c \in Conns : pc[c] = "selected" /\ tx[c].seq = issued[Len(issued)]

\* C2: the counter starts at 1000; the k-th successful confirmation is issued
\* 1000 + k - 1, the stored counter is 1000 + the number of successful
\* confirmations, and no number is issued twice, whatever was deleted.
C2_CounterExact ==
    /\ ReadSeq(meta) = 1000 + Len(issued)
    /\ \A k \in 1..Len(issued) : issued[k] = 1000 + k - 1
    /\ \A r \in Confirmed(reservations) :
          \E k \in 1..Len(issued) : SeqOfNo(r.reservation_no) = issued[k]
    /\ \A r1, r2 \in Confirmed(reservations) :
          r1 # r2 => SeqOfNo(r1.reservation_no) # SeqOfNo(r2.reservation_no)

\* a second confirmation after the holder of 1000 was deleted, seen by a rollup
C2_Witness ==
    /\ Len(issued) = 2
    /\ call.op = "ozet"
    /\ \E r \in Confirmed(reservations) : SeqOfNo(r.reservation_no) = 1001
    /\ \A r \in Confirmed(reservations) : SeqOfNo(r.reservation_no) # 1000

\* C3: export_test, confirm and create_reservation(confirmed=False) leave the
\* counter as it is, and what they produce carries no reservation number.
C3_NoAllocation ==
    [][ call'.op \in {"export_test", "confirm", "create_unconfirmed"} =>
          /\ meta' = meta
          /\ issued' = issued
          /\ call'.op = "export_test" => ret'.reservation_no = <<>>
          /\ call'.op = "confirm" /\ "payload" \in DOMAIN ret' =>
                "reservation_no" \notin DOMAIN ret'.payload
          /\ call'.op = "create_unconfirmed" =>
                /\ ret'.reservation_no = None
                /\ \A r \in reservations' \ reservations :
                      r.reservation_no = None /\ r.is_confirmed = 0 ]_vars

\* an unconfirmed record was created after a confirmation
C3_Witness ==
    /\ call.op = "create_unconfirmed"
    /\ Len(issued) >= 1
    /\ \E r \in reservations : r.id = ret.id /\ r.is_confirmed = 0

\* the draft is one that confirm() must refuse
InvalidDraft(draft) ==
    \/ Strip(draft.advertiser_name) = <<>>
    \/ Strip(draft.plan_title) = <<>>
    \/ draft.plan_date = NoDate

\* C4: confirming a draft with an empty advertiser, an empty plan title or no
\* valid date ends in an error, and nothing is persisted: no row is added and
\* the counter is unchanged.
C4_InvalidAborts ==
    [][ call'.op \in {"confirm", "on_save"} /\ InvalidDraft(call'.draft) =>
          /\ "error" \in DOMAIN ret' \/ "warning" \in DOMAIN ret'
          /\ call'.op = "confirm" => "error" \in DOMAIN ret'
          /\ reservations' = reservations
          /\ meta' = meta
          /\ lastRowid' = lastRowid
          /\ current_confirmed' = current_confirmed ]_vars

\* on_save was refused by confirm() on a store that holds a reservation
C4_Witness ==
    /\ call.op = "on_save"
    /\ InvalidDraft(call.draft)
    /\ "error" \in DOMAIN ret
    /\ reservations # {}

C6_NoUnconfirm ==
    [][ /\ \A r \in Confirmed(reservations) : \A r2 \in reservations' :
             /\ r2.id = r.id => r2.is_confirmed = 1 /\ r2.reservation_no = r.reservation_no
             /\ r2.id # r.id => r2.reservation_no # r.reservation_no
        /\ \A r \in Confirmed(reservations) :
             (\A r2 \in reservations' : r2.id # r.id) => call'.op = "delete" /\ r.id \in call'.ids
        /\ \A r2 \in Confirmed(reservations') :
             (\A r \in reservations : r.id # r2.id) =>
                \A k \in 1..Len(issued) : SeqOfNo(r2.reservation_no) # issued[k] ]_vars

\* after a deletion and a code removal a confirmed reservation is still stored
C6_Witness ==
    /\ Len(issued) = 2
    /\ Cardinality(Confirmed(reservations)) = 1
    /\ \E r \in Confirmed(reservations) : \E k \in DOMAIN r.payload.plan_cells :
          r.payload.plan_cells[k] = <<>> /\ SeqOfNo(r.reservation_no) = 1001

\* PlanningGrid: build_timeslots() gives the rows 07:00 .. 19:45
GridRowCount == 52

GridRows == 0..(GridRowCount - 1)

\* the daypart of a row: DT is 07:00-10:00 and 17:00-20:00
DayPartOfRow(row) == IF row \in 0..11 \/ row \in 40..51 THEN "DT" ELSE "ODT"

\* the rows of the planning table a stored reservation occupies on a date
OccupiedRows(r, dd) ==
    LET p == r.payload
        mk == MonthKey(<<dd[1], dd[2]>>)
        cells == IF p.is_span
                 THEN (IF mk \in DOMAIN p.span_month_matrices
                       THEN p.span_month_matrices[mk] ELSE <<>>)
                 ELSE IF SubSeq(p.plan_date, 1, 7) = SubSeq(IsoFormat(dd), 1, 7)
                 THEN p.plan_cells
                 ELSE <<>>
    IN {row \in GridRows : /\ CellKey(row, dd[3]) \in DOMAIN cells
                           /\ Strip(cells[CellKey(row, dd[3])]) # <<>>}

\* the stored reservations that contribute to a rollup: confirmed, of the
\* plan title, and in the range (a span by its dates, another by its plan date)
Contributing(plan_title, rs, re) ==
    {r \in reservations :
        /\ r.is_confirmed = 1
        /\ r.plan_title = Strip(plan_title)
        /\ IF r.payload.is_span
           THEN /\ DateLE(ParseIsoDate(r.payload.span_start), re)
                /\ DateLE(rs, ParseIsoDate(r.payload.span_end))
           ELSE /\ DateLE(rs, ParseIsoDate(r.payload.plan_date))
                /\ DateLE(ParseIsoDate(r.payload.plan_date), re)}

\* the occupied cells of a set of reservations on a date, as <<id, row>>
OccupiedCells(recs, dd) == UNION {{<<r.id, row>> : row \in OccupiedRows(r, dd)} : r \in recs}

RECURSIVE SumTo(_, _)
SumTo(f, n) == IF n = 0 THEN 0 ELSE f[n] + SumTo(f, n - 1)

\* the last call was a rollup that returned a table
OzetDone == call.op = "ozet" /\ "rows" \in DOMAIN ret /\ ret.dates # <<>>

C8_ReflectsStore ==
    OzetDone =>
      \A i \in 1..Len(ret.rows) : \A j \in 1..Len(ret.dates) :
         Val(ret.rows[i].days[j]) =
           Cardinality({c \in OccupiedCells(
                           {r \in Contributing(call.plan_title, ret.start, ret.end) :
                              NormName(r.payload.channel_name) = NormName(ret.rows[i].channel)},
                           ret.dates[j]) :
                         DayPartOfRow(c[2]) = ret.rows[i].dt_odt})

\* a rollup after a reservation was deleted counts the one that is left
C8_Witness ==
    /\ OzetDone
    /\ lastRowid >= 2
    /\ Cardinality(reservations) = 1
    /\ \E j \in 1..Len(ret.dates) : ret.totals.days[j] = <<1>>

\* C9: for every date of the range, the sum over all rows of the per-day
\* count is the number of occupied cells on that date across the contributing
\* reservations, whatever channel each names.
C9_Conservation ==
    OzetDone =>
      \A j \in 1..Len(ret.dates) :
         SumTo([i \in 1..Len(ret.rows) |-> Val(ret.rows[i].days[j])], Len(ret.rows)) =
           Cardinality(OccupiedCells(Contributing(call.plan_title, ret.start, ret.end),
                                     ret.dates[j]))

\* C10: the totals have one per-day entry per date and one adet and one saniye
\* entry per month, as every row has; each entry of the totals is the sum of
\* that entry over the rows, and the total budget is the sum of the budgets.
C10_Totals ==
    OzetDone =>
      /\ Len(ret.totals.days) = Len(ret.dates)
      /\ Len(ret.totals.month_cols) = 2 * Len(ret.months)
      /\ \A i \in 1..Len(ret.rows) :
            /\ Len(ret.rows[i].days) = Len(ret.dates)
            /\ Len(ret.rows[i].month_cols) = 2 * Len(ret.months)
      /\ \A j \in 1..Len(ret.dates) :
            Val(ret.totals.days[j]) =
              SumTo([i \in 1..Len(ret.rows) |-> Val(ret.rows[i].days[j])], Len(ret.rows))
      /\ \A j \in 1..(2 * Len(ret.months)) :
            Val(ret.totals.month_cols[j]) =
              SumTo([i \in 1..Len(ret.rows) |-> Val(ret.rows[i].month_cols[j])], Len(ret.rows))
      /\ Val(ret.totals.budget) =
            SumTo([i \in 1..Len(ret.rows) |-> Val(ret.rows[i].budget)], Len(ret.rows))

\* two rows count on the same date of a range of two months
C10_Witness ==
    /\ OzetDone
    /\ Len(ret.months) = 2
    /\ \E j \in 1..Len(ret.dates) : \E i1, i2 \in 1..Len(ret.rows) :
          i1 # i2 /\ ret.rows[i1].days[j] # <<>> /\ ret.rows[i2].days[j] # <<>>

\* the cells of a month matrix whose date is in rs..re
TrimCells(cells, y, m, rs, re) ==
    [k \in {x \in DOMAIN cells : /\ KeyOk(x)
                                 /\ IsValidDate(y, m, KeyDay(x))
                                 /\ DateLE(rs, <<y, m, KeyDay(x)>>)
                                 /\ DateLE(<<y, m, KeyDay(x)>>, re)} |-> cells[k]]

\* the stored reservations without the cells whose date is outside rs..re
WithoutOutOfRange(rows, rs, re) ==
    { IF r.payload.is_span
      THEN [r EXCEPT !.payload.span_month_matrices =
              [mk \in DOMAIN r.payload.span_month_matrices |->
                 TrimCells(r.payload.span_month_matrices[mk], ParseMonthKey(mk)[1],
                           ParseMonthKey(mk)[2], rs, re)]]
      ELSE [r EXCEPT !.payload.plan_cells =
              TrimCells(r.payload.plan_cells, ParseIsoDate(r.payload.plan_date)[1],
                        ParseIsoDate(r.payload.plan_date)[2], rs, re)]
      : r \in rows }

\* the dates of the list that fall in a month
DatesOfMonth(dates, ym) == {d \in SeqToSet(dates) : d[1] = ym[1] /\ d[2] = ym[2]}

\* a stored reservation holds an occupied cell of a month of the range whose
\* date is outside the range
HasCellOutside(r, dates, months) ==
    \E i \in 1..Len(months) :
       \E day \in 1..DaysInMonth(months[i][1], months[i][2]) :
          /\ <<months[i][1], months[i][2], day>> \notin SeqToSet(dates)
          /\ OccupiedRows(r, <<months[i][1], months[i][2], day>>) # {}

\* C11: a cell whose date is outside the requested range is never counted,
\* also when its month matrix belongs to a reservation that intersects the
\* range: each row's count of a month is the number of occupied cells of its
\* channel and daypart on the dates of the range in that month, and rows and
\* totals (counts, seconds, budget) are those of the store without the cells
\* outside the range.
C11_OutOfRangeExcluded ==
    OzetDone =>
      /\ \A i \in 1..Len(ret.rows) : \A j \in 1..Len(ret.months) :
            Val(ret.rows[i].month_cols[2 * j - 1]) =
              Cardinality(UNION {
                 {<<d, c>> : c \in {x \in OccupiedCells(
                      {r \in Contributing(call.plan_title, ret.start, ret.end) :
                         NormName(r.payload.channel_name) = NormName(ret.rows[i].channel)}, d) :
                      DayPartOfRow(x[2]) = ret.rows[i].dt_odt}}
                 : d \in DatesOfMonth(ret.dates, ret.months[j])})
      /\ LET trimmed == PlanOzetRange(WithoutOutOfRange(reservations, ret.start, ret.end),
                                      channels, call.plan_title, call.start, call.end)
         IN ret.rows = trimmed.rows /\ ret.totals = trimmed.totals

\* a rollup counts a cell of a span reservation that also holds, in a month of
\* the range, a cell outside the range
C11_Witness ==
    /\ OzetDone
    /\ \E j \in 1..Len(ret.dates) : ret.totals.days[j] # <<>>
    /\ \E r \in Contributing(call.plan_title, ret.start, ret.end) :
          r.payload.is_span /\ HasCellOutside(r, ret.dates, ret.months)

\* ------------------------------------------------------- rollup and prices

\* the prices entered in the price table: DT and ODT of a month
PriceChoices == {<<10, 5>>, <<20, 5>>}

NextPrice ==
    \/ Confirm(DraftJan, CellsJan)
    \/ \E w \in Weeks : SaveAndExport(w)
    \/ \E f \in {x \in RangeForms : x.grid = GridSpan3}, w \in Weeks : OnSave(f, w)
    \/ \E month \in {1, 2}, pr \in PriceChoices : UpsertChannelPrice(2026, month, 1, pr[1], pr[2])
    \/ GetPlanOzetRangeData(TITLE, D_JAN31, D_FEB02)

SpecPrice == Init /\ [][NextPrice]_vars

\* ------------------------------------------------------- rollup header

\* span forms of one plan title: two advertisers, an agency or the marker
\* typed as the agency
HeaderForms ==
    { [Form(adv, TITLE, TRUE, GridSpanFeb, <<TRT_FM>>, TRT_FM) EXCEPT
         !.agency_name = ag, !.range_end = D_FEB02]
        : adv \in {ADV, <<"a", "b">>}, ag \in {<<"A", "G">>, COKLU} }

NextHeader ==
    \/ \E f \in HeaderForms, w \in Weeks : OnSave(f, w)
    \/ \E ids \in Selections : DeleteReservationsByIds(ids)
    \/ \E d \in {D_FEB01, D_FEB02} : GetPlanOzetRangeData(TITLE, d, D_FEB02)

SpecHeader == Init /\ [][NextHeader]_vars

\* ------------------------------------------------------ inverted ranges

\* the ends of the ranges handed to the grid and to the rollup
RangeEnds == {D_JAN31, D_FEB02}

\* a range and the same range with its ends the other way round
RangePairs == {<<D_JAN31, D_FEB02>>, <<D_FEB02, D_JAN31>>}

NextGrid ==
    \/ \E f \in {x \in RangeForms : x.grid = GridSpan3}, w \in Weeks : OnSave(f, w)
    \/ \E s \in RangeEnds, e \in RangeEnds, sel \in {NoDate, D_FEB01} : SetDateSpan(s, e, sel)
    \/ \E a \in RangePairs \cup {<<NoDate, D_FEB02>>} : SetDateRange(a[1], a[2])
    \/ \E a \in RangePairs : GetPlanOzetRangeData(TITLE, a[1], a[2])

SpecGrid == Init /\ [][NextGrid]_vars

\* ------------------------------------------------------------- dayparts

\* the times of day: every minute, and the last second of every hour
Times ==
    {<<h, m, 0>> : h \in 0..23, m \in 0..59} \cup {<<h, 59, 59>> : h \in 0..23}

NextClassify == \E t \in Times : Classify(t)

SpecClassify == Init /\ [][NextClassify]_vars

\* ------------------------------------------------------------ time slots

\* bound: the row indices handed to _row_idx_to_time
MaxRowIdx == 110

NextSlots ==
    \/ BuildTimeslotsCall
    \/ \E i \in 0..MaxRowIdx : RowIdxToTimeCall(i)

SpecSlots == Init /\ [][NextSlots]_vars

\* ---------------------------------------------------- reservation numbers

MURATBEY == <<"M", "u", "r", "a", "t", "b", "e", "y">>

\* the advertiser names of the confirmations
NoAdvertisers == {MURATBEY, <<" ", "m", "b">>, <<"a", "b">>, <<>>}

\* the days of the confirmations, with the ISO year and week the calendar
\* gives them
NoDays ==
    { <<2026, 1, 28>>, <<2024, 12, 30>>, <<2027, 1, 1>>, <<2021, 1, 3>>, <<2026, 12, 31>> }

NextResNo == \E a \in NoAdvertisers, d \in NoDays : NextReservationNo(a, d)

SpecResNo == Init /\ [][NextResNo]_vars

\* --------------------------------------------------------- code tables

\* a code table that does not define "a"
CodeDefsNoA == << [code |-> <<"B">>, duration_sec |-> 15] >>

\* span forms of one plan title; the code table defines "a" twice, or not
CodeForms ==
    { [Form(ADV, TITLE, TRUE, g, <<TRT_FM>>, TRT_FM) EXCEPT
         !.code_defs = cd, !.range_end = D_FEB02]
        : g \in {GridSpanFeb, GridSpan3}, cd \in {CodeDefsUi, CodeDefsNoA} }

NextCodes ==
    \/ \E f \in CodeForms, w \in Weeks : OnSave(f, w)
    \/ \E ids \in Selections : DeleteReservationsByIds(ids)
    \/ GetPlanOzetRangeData(TITLE, D_JAN31, D_FEB02)
    \/ GetKodTanimiRows(TITLE)
    \/ GetSpotlistRows(TITLE)

SpecCodes == Init /\ [][NextCodes]_vars

\* the confirmed reservations of the plan title of the last call
AllOfTitle == {r \in Confirmed(reservations) : r.plan_title = Strip(call.plan_title)}

\* those of them in the range: a single-date one by its plan date; a span one
\* when its span meets the range and a month of the range holds a cell of it
InRangeRecs(rs, re, months) ==
    {r \in Contributing(call.plan_title, rs, re) :
        r.payload.is_span =>
          \E i \in 1..Len(months) :
             /\ MonthKey(months[i]) \in DOMAIN r.payload.span_month_matrices
             /\ \E k \in DOMAIN r.payload.span_month_matrices[MonthKey(months[i])] :
                   Strip(r.payload.span_month_matrices[MonthKey(months[i])][k]) # <<>>}

\* blank for no value, the value when there is one, else the marker
OneOrMarker(S) ==
    IF S \ {<<>>} = {} THEN <<>>
    ELSE IF Cardinality(S \ {<<>>}) = 1 THEN CHOOSE v \in S \ {<<>>} : TRUE
    ELSE COKLU

\* the durations of the codes the cells of a reservation hold
UsedDurations(r) ==
    LET p == r.payload
        texts == IF p.is_span
                 THEN UNION {{p.span_month_matrices[mk][k] : k \in DOMAIN p.span_month_matrices[mk]}
                               : mk \in DOMAIN p.span_month_matrices}
                 ELSE {p.plan_cells[k] : k \in DOMAIN p.plan_cells}
    IN {p.code_defs[i].duration_sec :
          i \in {j \in 1..Len(p.code_defs) : \E t \in texts : Upper(Strip(t)) = p.code_defs[j].code}}

\* C12: only the confirmed reservations of the plan title that intersect the
\* range contribute: rows, totals and header are those of a store that holds
\* nothing but these reservations.
C12_OnlyIntersecting ==
    OzetDone =>
      ret = PlanOzetRange(Contributing(call.plan_title, ret.start, ret.end), channels,
                          call.plan_title, call.start, call.end)

\* C12, amended: rows and totals are those of a store that holds nothing but
\* the confirmed reservations of the plan title that intersect the range.
\* Agency, advertiser, product and reservation numbers of the header come
\* from the reservations in the range, and from all confirmed reservations of
\* the plan title when none is in the range; the spot length comes from all
\* confirmed reservations of the plan title, whatever the range.
C12_RowsFromIntersecting ==
    OzetDone =>
      LET only == PlanOzetRange(Contributing(call.plan_title, ret.start, ret.end), channels,
                                call.plan_title, call.start, call.end)
          inr == InRangeRecs(ret.start, ret.end, ret.months)
          src == IF inr # {} THEN inr ELSE AllOfTitle
      IN /\ ret.rows = only.rows
         /\ ret.totals = only.totals
         /\ ret.header.agency = OneOrMarker({r.payload.agency_name : r \in src})
         /\ ret.header.advertiser = OneOrMarker({r.payload.advertiser_name : r \in src})
         /\ ret.header.product = OneOrMarker({r.payload.product_name : r \in src})
         /\ SeqToSet(ret.header.reservation_no) \ {COKLU} = {r.reservation_no : r \in src}
         /\ ret.header.spot_len =
               LET durs == UNION {UsedDurations(r) : r \in AllOfTitle} \ {0}
               IN IF durs = {} THEN <<>>
                  ELSE IF Cardinality(durs) = 1 THEN FormatInt(CHOOSE d \in durs : TRUE)
                  ELSE COKLU

\* a rollup counts a reservation in the range while the store holds one of
\* the plan title outside the range
C12_Witness ==
    /\ OzetDone
    /\ \E j \in 1..Len(ret.dates) : ret.totals.days[j] # <<>>
    /\ InRangeRecs(ret.start, ret.end, ret.months) # {}
    /\ AllOfTitle \ Contributing(call.plan_title, ret.start, ret.end) # {}

\* the seconds of an occupied cell: the duration its reservation defines for
\* the code the cell holds, 0 when it defines none
CellSeconds(r, dd, row) ==
    LET p == r.payload
        text == IF p.is_span THEN p.span_month_matrices[MonthKey(<<dd[1], dd[2]>>)][CellKey(row, dd[3])]
                ELSE p.plan_cells[CellKey(row, dd[3])]
        defs == {i \in 1..Len(p.code_defs) : p.code_defs[i].code = Upper(Strip(text))}
    IN IF defs = {} THEN 0 ELSE p.code_defs[CHOOSE i \in defs : \A j \in defs : j <= i].duration_sec

\* the occupied cells of a row of the rollup on the dates of a month of the
\* range, as <<reservation, date, grid row>>
RowCellsOfMonth(row, ym) ==
    UNION { UNION { {<<r, d, x>> : x \in {y \in OccupiedRows(r, d) : DayPartOfRow(y) = row.dt_odt}}
                    : d \in DatesOfMonth(ret.dates, ym) }
            : r \in {q \in Contributing(call.plan_title, ret.start, ret.end) :
                       NormName(q.payload.channel_name) = NormName(row.channel)} }

\* C13: the count of a month in a row is the sum of the row's counts of the
\* days of that month, and the seconds of a month are the sum of the seconds
\* of the cells of the days of that month: a cell goes to the month of its own
\* date.
C13_MonthSums ==
    OzetDone =>
      \A i \in 1..Len(ret.rows) : \A j \in 1..Len(ret.months) :
         /\ Val(ret.rows[i].month_cols[2 * j - 1]) =
               SumFn([k \in {n \in 1..Len(ret.dates) :
                               ret.dates[n] \in DatesOfMonth(ret.dates, ret.months[j])}
                        |-> Val(ret.rows[i].days[k])])
         /\ Val(ret.rows[i].month_cols[2 * j]) =
               SumFn([c \in RowCellsOfMonth(ret.rows[i], ret.months[j])
                        |-> CellSeconds(c[1], c[2], c[3])])
         /\ Val(ret.rows[i].month_cols[2 * j - 1]) =
               Cardinality(RowCellsOfMonth(ret.rows[i], ret.months[j]))

\* a reservation of one date in January and a span reservation from late
\* January to early February with one cell in February, same channel and
\* daypart: the row counts 2, 1 in January and 1 in February
C13_Witness ==
    /\ OzetDone
    /\ Len(ret.months) = 2
    /\ \E r1, r2 \in Contributing(call.plan_title, ret.start, ret.end) :
          /\ ~r1.payload.is_span /\ r2.payload.is_span
          /\ NormName(r1.payload.channel_name) = NormName(r2.payload.channel_name)
    /\ \E i \in 1..Len(ret.rows) :
          /\ ret.rows[i].month_cols[1] = <<1>>
          /\ ret.rows[i].month_cols[3] = <<1>>
          /\ SumFn([k \in 1..Len(ret.dates) |-> Val(ret.rows[i].days[k])]) = 2

\* the unit price defined for a channel name, a year, a month and a daypart;
\* 0 when none is
DefinedPrice(channel, year, month, dtodt) ==
    LET ids == {c.id : c \in {x \in channels : NormName(x.name) = NormName(channel)}}
        ps == {p \in channel_prices : p.year = year /\ p.month = month /\ p.channel_id \in ids}
    IN IF ps = {} THEN 0
       ELSE LET p == CHOOSE q \in ps : TRUE
            IN IF dtodt = "DT" THEN p.price_dt ELSE p.price_odt

\* C14: the budget of a row is the sum, over its occupied cells in the range,
\* of the duration of the cell's code times the unit price defined for the
\* channel, the year and month of the cell's date, and the daypart.
C14_BudgetByMonth ==
    OzetDone =>
      \A i \in 1..Len(ret.rows) :
         Val(ret.rows[i].budget) =
           SumFn([j \in 1..Len(ret.months) |->
                    SumFn([c \in RowCellsOfMonth(ret.rows[i], ret.months[j]) |->
                             CellSeconds(c[1], c[2], c[3])
                             * DefinedPrice(ret.rows[i].channel, c[2][1], c[2][2],
                                            ret.rows[i].dt_odt)])])

\* C15: the unit price of a row is the price defined for its channel and
\* daypart when it is the same in every month of the range that has one, the
\* marker when it differs between months, blank when no month has one.
C15_UnitPriceDisplay ==
    OzetDone =>
      \A i \in 1..Len(ret.rows) :
         LET ps == {DefinedPrice(ret.rows[i].channel, ret.months[j][1], ret.months[j][2],
                                 ret.rows[i].dt_odt) : j \in 1..Len(ret.months)} \ {0}
         IN ret.rows[i].unit_price =
              (IF ps = {} THEN <<>>
               ELSE IF Cardinality(ps) = 1 THEN <<CHOOSE x \in ps : TRUE>>
               ELSE COKLU)

\* the reservations the header of the last rollup is built from
HeaderSource ==
    IF InRangeRecs(ret.start, ret.end, ret.months) # {}
    THEN InRangeRecs(ret.start, ret.end, ret.months)
    ELSE AllOfTitle

ResNoKeyLT(a, b) ==
    \/ a[1] < b[1]
    \/ a[1] = b[1] /\ a[2] < b[2]
    \/ a[1] = b[1] /\ a[2] = b[2] /\ a[3] < b[3]
    \/ a[1] = b[1] /\ a[2] = b[2] /\ a[3] = b[3] /\ StrLT(a[4], b[4])

\* C17: the reservation numbers of the header are in the order of their
\* parsed (year, week, sequence), a number of another format by its text; one
\* number is shown as it is, several are listed after a marker line.
C17_ResNoOrder ==
    OzetDone =>
      LET lines == ret.header.reservation_no
          nos == {r.reservation_no : r \in {x \in HeaderSource : x.reservation_no # None}}
          listed == IF Len(lines) > 1 THEN Tail(lines) ELSE lines
      IN /\ SeqToSet(listed) = nos
         /\ Len(listed) = Cardinality(nos)
         /\ Cardinality(nos) > 1 => lines[1] = COKLU
         /\ \A i, j \in 1..Len(listed) :
               i < j => ResNoKeyLT(SortReservationNo(listed[i]), SortReservationNo(listed[j]))

\* the known channels of the last rollup: the active ones, and the inactive
\* ones that a reservation in the range names
KnownChannels ==
    {c \in channels :
        \/ c.is_active = 1
        \/ \E r \in InRangeRecs(ret.start, ret.end, ret.months) :
              NormName(r.payload.channel_name) = NormName(c.name)}

\* C18: a range rollup has exactly one row for each known channel and each
\* daypart: no pair twice, and no row of another channel.
C18_OneRowPerPair ==
    OzetDone =>
      /\ \A i, j \in 1..Len(ret.rows) :
            i # j => <<ret.rows[i].channel, ret.rows[i].dt_odt>>
                     # <<ret.rows[j].channel, ret.rows[j].dt_odt>>
      /\ {<<ret.rows[i].channel, ret.rows[i].dt_odt>> : i \in 1..Len(ret.rows)}
           = {c.name : c \in KnownChannels} \X {"DT", "ODT"}
      /\ Len(ret.rows) = 2 * Cardinality(KnownChannels)

\* a rollup shows the rows of a channel that is not active and that a
\* reservation in the range names, next to those of the active channels
C18_Witness ==
    /\ OzetDone
    /\ \E c \in KnownChannels : c.is_active = 0
    /\ \E c \in KnownChannels : c.is_active = 1
    /\ \E i \in 1..Len(ret.rows) :
          \E c \in channels : c.is_active = 0 /\ ret.rows[i].channel = c.name

\* C19: an inverted range is put in order by swapping its ends: the rollup of
\* (end, start) is the rollup of (start, end), and set_date_span and
\* set_date_range leave the grid in the state the swapped arguments give, the
\* earlier date first.
C19_SwapNormalised ==
    [][ /\ call'.op = "ozet" =>
             ret' = PlanOzetRange(reservations, channels, call'.plan_title,
                                  call'.end, call'.start)
        /\ call'.op = "set_date_span" =>
             /\ plan_grid' = SetDateSpanState(plan_grid, call'.end, call'.start,
                                              call'.selected_date)
             /\ DateLE(plan_grid'.span_start, plan_grid'.span_end)
        /\ call'.op = "set_date_range" =>
             /\ plan_grid' = SetDateRangeState(plan_grid, call'.end, call'.start)
             /\ plan_grid'.range_start # NoDate =>
                   DateLE(plan_grid'.range_start, plan_grid'.range_end) ]_vars

\* set_date_span was called with the later date first and the grid spans
\* the dates from the earlier one to the later one
C19_Witness ==
    /\ call.op = "set_date_span"
    /\ DateLT(call.end, call.start)
    /\ plan_grid.mode = "span"
    /\ plan_grid.span_start = call.end
    /\ plan_grid.span_end = call.start
    /\ Len(plan_grid.span_dates) > 1

C21_Timeslots ==
    /\ call.op = "build_timeslots" =>
          /\ Len(ret.slots) = 52
          /\ \A i \in 0..51 :
                /\ ret.slots[i + 1].time[1] * 60 + ret.slots[i + 1].time[2] = 7 * 60 + 15 * i
                /\ ret.slots[i + 1].time = RowIdxToTime(i)
          /\ ret.slots[1].label = <<"0", "7", ":", "0", "0", "-", "0", "7", ":", "1", "5">>
          /\ ret.slots[52].label = <<"1", "9", ":", "4", "5", "-", "2", "0", ":", "0", "0">>
    /\ call.op = "row_idx_to_time" /\ call.row_idx \in 0..51 =>
          /\ "time" \in DOMAIN ret
          /\ ret.time[1] * 60 + ret.time[2] = 7 * 60 + 15 * call.row_idx
          /\ ret.time = BuildTimeslots[call.row_idx + 1].time

\* the time of the last slot was asked for: 19:45
C21_Witness ==
    /\ call.op = "row_idx_to_time"
    /\ call.row_idx = 51
    /\ ret.time = <<19, 45>>

\* the ISO year and week of the days of NoDays, read off the calendar
CalendarIso(d) ==
    CASE d = <<2026, 1, 28>> -> <<2026, 5>>
      [] d = <<2024, 12, 30>> -> <<2025, 1>>
      [] d = <<2027, 1, 1>> -> <<2026, 53>>
      [] d = <<2021, 1, 3>> -> <<2020, 53>>
      [] d = <<2026, 12, 31>> -> <<2026, 53>>

\* C22: the number of a confirmed reservation is <first letter of the
\* advertiser name, upper-cased>-<ISO year>W<ISO week, two digits>-<sequence>,
\* of the time of the confirmation and the sequence allocated: "Muratbey" in
\* ISO week 5 of 2026 with sequence 1007 gets "M-2026W05-1007".
C22_NumberFormat ==
    call.op = "next_reservation_no" =>
      LET f == Split(ret.reservation_no, "-")
          iso == CalendarIso(call.now)
      IN /\ Len(f) = 3
         /\ Strip(call.advertiser_name) # <<>> =>
               f[1] = <<UpperCh(Strip(call.advertiser_name)[1])>>
         /\ Len(f[2]) = 7
         /\ IsIntText(SubSeq(f[2], 1, 4)) /\ IntOf(SubSeq(f[2], 1, 4)) = iso[1]
         /\ f[2][5] = "W"
         /\ IsIntText(SubSeq(f[2], 6, 7)) /\ IntOf(SubSeq(f[2], 6, 7)) = iso[2]
         /\ IsIntText(f[3]) /\ IntOf(f[3]) = call.seq
         /\ (call.advertiser_name = MURATBEY /\ iso = <<2026, 5>> /\ call.seq = 1007) =>
               ret.reservation_no =
                 <<"M", "-", "2", "0", "2", "6", "W", "0", "5", "-", "1", "0", "0", "7">>

\* "Muratbey" was handed the sequence 1007 in ISO week 5 of 2026
C22_Witness ==
    /\ call.op = "next_reservation_no"
    /\ call.advertiser_name = MURATBEY
    /\ call.now = <<2026, 1, 28>>
    /\ call.seq = 1007
    /\ ret.reservation_no = <<"M", "-", "2", "0", "2", "6", "W", "0", "5", "-", "1", "0", "0", "7">>

\* C23: the duration of a cell comes from the code definitions of the
\* reservation that holds the cell, and is 0 when that reservation does not
\* define the code, whatever another reservation of the plan title defines:
\* the seconds of a month are the sum of these durations over its cells.
C23_OwnDefinitions ==
    OzetDone =>
      \A j \in 1..Len(ret.months) :
         Val(ret.totals.month_cols[2 * j]) =
           SumFn([c \in UNION { UNION { {<<r, d, x>> : x \in OccupiedRows(r, d)}
                                         : d \in DatesOfMonth(ret.dates, ret.months[j]) }
                                 : r \in Contributing(call.plan_title, ret.start, ret.end) }
                    |-> CellSeconds(c[1], c[2], c[3])])

\* two reservations of the plan title hold one cell "a" each on the first of
\* February; one defines the code with 30 seconds, the other does not define
\* it: the month counts 2 cells and 30 seconds
C23_Witness ==
    /\ OzetDone
    /\ \E r1, r2 \in Contributing(call.plan_title, ret.start, ret.end) :
          /\ r1.payload.adet_total = 1 /\ r2.payload.adet_total = 1
          /\ \A i \in 1..Len(r1.payload.code_defs) : r1.payload.code_defs[i].code # <<"A">>
          /\ \E i \in 1..Len(r2.payload.code_defs) :
                r2.payload.code_defs[i] = [code |-> <<"A">>, duration_sec |-> 30]
    /\ Cardinality(reservations) = 2
    /\ ret.totals.month_cols = << <<>>, <<>>, <<2>>, <<30>> >>

\* the duration of the first definition of a code in a list, 0 when there
\* is none
FirstDur(defs, code) ==
    LET at == {i \in 1..Len(defs) : Upper(Strip(defs[i].code)) = code}
    IN IF at = {} THEN 0 ELSE defs[CHOOSE i \in at : \A j \in at : i <= j].duration_sec

IsGridKey(ym, k) ==
    /\ KeyOk(k)
    /\ KeyRow(k) \in GridRows
    /\ IsValidDate(ym[1], ym[2], KeyDay(k))

\* C25: a stored cell key that does not parse into a cell of the grid (slot
\* index in 0..51, day a day of the month) is skipped by the rollup: it adds
\* nothing to the counts, and the rollup completes without an error.
C25_BadKeysSkipped ==
    call.op = "ozet" =>
      /\ "rows" \in DOMAIN ret
      /\ ret.dates # <<>> =>
            \A i \in 1..Len(ret.dates) :
               Val(ret.totals.days[i]) =
                 Cardinality({ h \in UNION { {<<r.id, k>> : k \in DOMAIN r.payload.plan_cells}
                                             : r \in Contributing(call.plan_title, ret.start, ret.end) } :
                     \E r \in reservations :
                        /\ r.id = h[1]
                        /\ Strip(r.payload.plan_cells[h[2]]) # <<>>
                        /\ IsGridKey(<<ret.dates[i][1], ret.dates[i][2]>>, h[2])
                        /\ KeyDay(h[2]) = ret.dates[i][3] })

\* a stored span reservation with a boundary that does not parse
DamagedSpan(r) ==
    /\ r.payload.is_span
    /\ ParseIsoDate(r.payload.span_start) = NoDate \/ ParseIsoDate(r.payload.span_end) = NoDate

\* the confirmed span reservations of a title taken into a rollup when a
\* boundary that does not parse is replaced by the boundary of the range
SpanTaken(plan_title, rs, re) ==
    {r \in reservations :
        /\ r.is_confirmed = 1 /\ r.plan_title = Strip(plan_title) /\ r.payload.is_span
        /\ LET s0 == IF ParseIsoDate(r.payload.span_start) # NoDate
                      THEN ParseIsoDate(r.payload.span_start) ELSE rs
                s1 == IF ParseIsoDate(r.payload.span_end) # NoDate
                      THEN ParseIsoDate(r.payload.span_end) ELSE re
           IN DateLE(s0, re) /\ DateLE(rs, s1)}

\* the confirmed span reservations of a title taken into a rollup when one
\* with a boundary that does not parse is taken by its plan date
SpanTakenByPlanDate(plan_title, rs, re) ==
    {r \in reservations :
        /\ r.is_confirmed = 1 /\ r.plan_title = Strip(plan_title) /\ r.payload.is_span
        /\ IF DamagedSpan(r)
           THEN /\ ParseIsoDate(r.payload.plan_date) # NoDate
                /\ DateLE(rs, ParseIsoDate(r.payload.plan_date))
                /\ DateLE(ParseIsoDate(r.payload.plan_date), re)
           ELSE /\ DateLE(ParseIsoDate(r.payload.span_start), re)
                /\ DateLE(rs, ParseIsoDate(r.payload.span_end))}

\* C26 (as stated): a span reservation with a boundary that does not parse is
\* a single-day reservation on its plan date: the rollup counts its cells only
\* when the plan date is in the range.
C26_SingleDayOnPlanDate ==
    OzetDone =>
      \A i \in 1..Len(ret.dates) :
         Val(ret.totals.days[i]) =
           Cardinality(OccupiedCells(SpanTakenByPlanDate(call.plan_title, ret.start, ret.end),
                                     ret.dates[i]))

\* C26 (amended): a boundary of a span reservation that does not parse is
\* replaced by the boundary of the requested range on that side, and the plan
\* date plays no part: the rollup counts the cells of the reservation on the
\* dates of the range unless the boundary that does parse puts the span
\* outside the range.
C26_RangeBoundFallback ==
    OzetDone =>
      \A i \in 1..Len(ret.dates) :
         Val(ret.totals.days[i]) =
           Cardinality(OccupiedCells(SpanTaken(call.plan_title, ret.start, ret.end),
                                     ret.dates[i]))

\* a span reservation with plan date 2026-01-31 and a start that does not
\* parse is the only one stored, and the rollup of 2026-02-01 counts its cell
C26_Witness ==
    /\ OzetDone
    /\ ret.start = D_FEB01 /\ ret.end = D_FEB01
    /\ Cardinality(reservations) = 1
    /\ \A r \in reservations :
          /\ DamagedSpan(r)
          /\ r.payload.plan_date = IsoFormat(D_JAN31)
          /\ r.plan_title = call.plan_title
    /\ ret.totals.days = << <<1>> >>

\* the reservations of a set that hold no cell on a date of the last rollup
NoCellInside(recs) ==
    {r \in recs : \A i \in 1..Len(ret.dates) : OccupiedRows(r, ret.dates[i]) = {}}

\* C27 (as stated): the header is built from the reservations whose dates
\* meet the range, with or without a cell in it, and the counts from their cells
\* on the dates of the range.
C27_HeaderFromIntersecting ==
    OzetDone =>
      LET src == Contributing(call.plan_title, ret.start, ret.end)
      IN /\ ret.header.agency = OneOrMarker({r.payload.agency_name : r \in src})
         /\ ret.header.advertiser = OneOrMarker({r.payload.advertiser_name : r \in src})
         /\ ret.header.product = OneOrMarker({r.payload.product_name : r \in src})
         /\ SeqToSet(ret.header.reservation_no) \ {COKLU} = {r.reservation_no : r \in src}
         /\ \A i \in 1..Len(ret.dates) :
               Val(ret.totals.days[i]) = Cardinality(OccupiedCells(src, ret.dates[i]))

\* C27 (amended): the header is built from the reservations taken into the
\* rollup: one of a single date by its plan date, a span one when its dates
\* meet the range and a month of the range holds a cell of it, on a date of the
\* range or not. Such a reservation without a cell on a date of the range adds
\* its agency, advertiser, product and number to the header and nothing to the
\* counts. A span reservation whose dates meet the range but that holds no cell
\* in a month of the range adds nothing to the header, and neither does one
\* whose dates do not meet the range, as long as some reservation is taken;
\* when none is taken the header is built from all confirmed reservations of
\* the plan title.
C27_HeaderFromTaken ==
    OzetDone =>
      LET inr == InRangeRecs(ret.start, ret.end, ret.months)
          src == IF inr # {} THEN inr ELSE AllOfTitle
      IN /\ ret.header.agency = OneOrMarker({r.payload.agency_name : r \in src})
         /\ ret.header.advertiser = OneOrMarker({r.payload.advertiser_name : r \in src})
         /\ ret.header.product = OneOrMarker({r.payload.product_name : r \in src})
         /\ SeqToSet(ret.header.reservation_no) \ {COKLU} = {r.reservation_no : r \in src}
         /\ \A i \in 1..Len(ret.dates) :
               Val(ret.totals.days[i]) = Cardinality(OccupiedCells(inr, ret.dates[i]))

\* the rollup of 2026-02-02 takes a reservation with its cell on 2026-02-01:
\* the header shows its advertiser and number, the counts are blank; the other
\* stored reservation, of another advertiser, meets the range with its dates
\* and holds no cell in February
C27_Witness ==
    /\ OzetDone
    /\ ret.start = D_FEB02
    /\ \E r1, r2 \in Contributing(call.plan_title, ret.start, ret.end) :
          /\ r1 \in NoCellInside(InRangeRecs(ret.start, ret.end, ret.months))
          /\ r2 \notin InRangeRecs(ret.start, ret.end, ret.months)
          /\ r1.payload.advertiser_name # r2.payload.advertiser_name
          /\ ret.header.advertiser = r1.payload.advertiser_name
          /\ ret.header.reservation_no = <<r1.reservation_no>>
    /\ ret.totals.days = << <<>> >>

\* C28: after remove_code_from_plan_title(plan_title, code) no confirmed
\* reservation of the plan title defines the code and no cell of any of them,
\* of a single month or of a span, holds it: the code is in no row of the code
\* table and of the spot list, and the rollup counts no cell for it.
C28_CodeGone ==
    call.op = "delete_kod" /\ Upper(Strip(call.code)) # <<>> =>
      LET code == Upper(Strip(call.code))
          recs == ListConfirmedByPlanTitle(reservations, call.plan_title)
          spots == SpotlistRows(reservations, call.plan_title)
          ozet == PlanOzetRange(reservations, channels, call.plan_title, D_JAN31, D_FEB02)
      IN /\ \A r \in recs :
               /\ \A i \in 1..Len(r.payload.code_defs) :
                     Upper(Strip(r.payload.code_defs[i].code)) # code
               /\ \A c \in IterCells(r.payload) : c[5] # code
         /\ \A x \in KodTanimiRows(reservations, call.plan_title) : x.code # code
         /\ "spots" \in DOMAIN spots /\ \A x \in spots.spots : x.spot_kodu # code
         /\ "totals" \in DOMAIN ozet
         /\ SumFn([i \in 1..Len(ozet.dates) |-> Val(ozet.totals.days[i])])
               = SumFn([r \in recs |-> Cardinality({c \in IterCells(r.payload) : c[5] # code})])

\* the last operation stored reservations and raised
CreateFailed ==
    call.op \in {"create_reservation", "on_save", "save_and_export"} /\ "error" \in DOMAIN ret

\* C29: create_reservation is all or nothing. A call that fails after the
\* counter was read and incremented leaves no row behind and leaves the counter,
\* the row ids and the advertisers as they were; a confirmation that succeeds is
\* numbered with the counter as it was before it and moves the counter by one,
\* so the first success after a failure has the sequence number the failure
\* would have had.
C29_AllOrNothing ==
    [][ /\ CreateFailed' =>
              /\ reservations' = reservations
              /\ meta' = meta
              /\ lastRowid' = lastRowid
              /\ advertisers' = advertisers
              /\ issued' = issued
        /\ (call'.op \in {"create_reservation", "on_save", "save_and_export"}
            /\ "reservation_no" \in DOMAIN ret') =>
              /\ SeqOfNo(ret'.reservation_no) = ReadSeq(meta)
              /\ ReadSeq(meta') = ReadSeq(meta) + 1
              /\ \E r \in reservations' \ reservations :
                    r.id = ret'.id /\ r.reservation_no = ret'.reservation_no
      ]_vars

\* the INSERT of a confirmation was refused for a number that is taken: the
\* counter still holds that number and the table holds the one row it held
C29_Witness ==
    /\ call.op = "create_reservation"
    /\ ret = [error |-> "IntegrityError"]
    /\ \E r \in reservations :
          r.reservation_no = ReservationNo(call.advertiser_name, <<2026, 5>>, ReadSeq(meta))
    /\ reservations = {LegacyRow}
    /\ ReadSeq(meta) = SeedSeq

\* C30: the rollup of a month and the rollup of the range from the first to
\* the last day of that month agree, for month reservations and for span
\* reservations saved by on_save: the same rows (counts of each day, adet and
\* seconds of the month for each channel and daypart) and the same totals.
C30_MonthEqualsRange ==
    call.op = "ozet_month" /\ Strip(call.plan_title) # <<>> =>
      LET range == PlanOzetRange(reservations, channels, call.plan_title,
                                 <<call.year, call.month, 1>>,
                                 <<call.year, call.month, DaysInMonth(call.year, call.month)>>)
      IN /\ "rows" \in DOMAIN ret
         /\ "rows" \in DOMAIN range
         /\ ret.rows = range.rows
         /\ ret.totals = range.totals

====
